---- MODULE Spec2Model ----
(***************************************************************************)
(* Model of dispatch (paperMoose/dispatch): the launch sequencer, the      *)
(* tmux session registry and the git worktree provisioner, as driven by    *)
(* the commands run, stop, resume and cleanup.                             *)
(*                                                                         *)
(* Strings that the code transforms (inputs, ids, branch names) are        *)
(* sequences of one-character strings, so that slugify and TICKET_RE are   *)
(* computed as the code computes them.  The shared state is what lives     *)
(* outside the dispatch process: the tmux session with its windows, the    *)
(* worktree directories, the local branches and the files in the working   *)
(* directories.  Each dispatch process is one command invocation at a      *)
(* time; its steps are the external commands the code runs, one action     *)
(* per command, so that two processes interleave as two real invocations.  *)
(***************************************************************************)
EXTENDS Integers, Sequences, FiniteSets, TLC

(***************************************************************************)
(* Bounds of the model                                                     *)
(***************************************************************************)
\* number of dispatch invocations in one behaviour, run one at a time
MaxCmds == 3
\* number of dispatch invocations in one behaviour when two may overlap
MaxRaceCmds == 2

\* the dispatch processes that may overlap
Procs == {1, 2}

(***************************************************************************)
(* Program constants                                                       *)
(***************************************************************************)
\* slugify: .slice(0, 40)
SlugCap == 40
\* TAB_COLORS.length
PaletteSize == 8
\* config.claudeTimeout as configured for the modelled runs (seconds)
ClaudeTimeout == 2

Str_dispatch == <<"d", "i", "s", "p", "a", "t", "c", "h">>
\* DISPATCH_SESSION / the name given to the control window by new-session -n
DISPATCH_SESSION == Str_dispatch

(***************************************************************************)
(* Characters                                                              *)
(***************************************************************************)
UpperChars == <<"A","B","C","D","E","F","G","H","I","J","K","L","M",
                "N","O","P","Q","R","S","T","U","V","W","X","Y","Z">>
LowerChars == <<"a","b","c","d","e","f","g","h","i","j","k","l","m",
                "n","o","p","q","r","s","t","u","v","w","x","y","z">>
DigitChars == <<"0","1","2","3","4","5","6","7","8","9">>

Range(f) == {f[i] : i \in DOMAIN f}

IsUpper(c) == c \in Range(UpperChars)
IsLower(c) == c \in Range(LowerChars)
IsDigit(c) == c \in Range(DigitChars)

\* String.prototype.toLowerCase on one character
ToLowerChar(c) ==
    IF IsUpper(c)
    THEN LowerChars[CHOOSE i \in DOMAIN UpperChars : UpperChars[i] = c]
    ELSE c

ToLower(s) == [i \in DOMAIN s |-> ToLowerChar(s[i])]

\* [a-z0-9]
IsSlugChar(c) == IsLower(c) \/ IsDigit(c)

RECURSIVE CollapseNonAlnum(_)
\* .replace(/[^a-z0-9]+/g, "-")
CollapseNonAlnum(s) ==
    IF s = <<>> THEN <<>>
    ELSE LET rest == CollapseNonAlnum(Tail(s)) IN
         IF IsSlugChar(Head(s)) THEN <<Head(s)>> \o rest
         ELSE IF Len(s) > 1 /\ ~IsSlugChar(s[2]) THEN rest
         ELSE <<"-">> \o rest

RECURSIVE TrimLeadingDashes(_)
TrimLeadingDashes(s) ==
    IF s # <<>> /\ Head(s) = "-" THEN TrimLeadingDashes(Tail(s)) ELSE s

RECURSIVE TrimTrailingDashes(_)
\* .replace(/-+$/, "")
TrimTrailingDashes(s) ==
    IF s # <<>> /\ s[Len(s)] = "-"
    THEN TrimTrailingDashes(SubSeq(s, 1, Len(s) - 1))
    ELSE s

\* .slice(0, n)
Slice0(s, n) == IF Len(s) <= n THEN s ELSE SubSeq(s, 1, n)

\* nothing trimmed after the cut
slugify_NoTrimAfterCut(text) ==
    Slice0(TrimTrailingDashes(TrimLeadingDashes(
               CollapseNonAlnum(ToLower(text)))), SlugCap)

slugify(text) ==
    TrimTrailingDashes(
        Slice0(TrimTrailingDashes(TrimLeadingDashes(
                   CollapseNonAlnum(ToLower(text)))), SlugCap))

\* the pattern without its anchors: a reference anywhere in the string
TICKET_RE_Unanchored(s) ==
    \E a \in 1 .. Len(s), k \in 2 .. (Len(s) - 1), b \in 1 .. Len(s) :
        /\ a < k /\ k < b
        /\ s[k] = "-"
        /\ \A i \in a .. (k - 1) : IsUpper(s[i])
        /\ \A i \in (k + 1) .. b : IsDigit(s[i])

\* TICKET_RE = /^[A-Z]+-[0-9]+$/
TICKET_RE(s) ==
    \E k \in 2 .. (Len(s) - 1) :
        /\ s[k] = "-"
        /\ \A i \in 1 .. (k - 1) : IsUpper(s[i])
        /\ \A i \in (k + 1) .. Len(s) : IsDigit(s[i])

(***************************************************************************)
(* Inputs of the modelled runs                                             *)
(***************************************************************************)
In_Fix == <<"F", "i", "x">>
In_fixBang == <<"f", "i", "x", "!">>
In_bang == <<"!">>

\* free-text inputs given to `dispatch run`
Inputs == {In_Fix, In_fixBang, Str_dispatch}

\* the input lists of the modelled `dispatch run` invocations: single
\* launches, a batch whose inputs resolve to one id, a batch of two agents
InputLists ==
    {<<In_Fix>>, <<Str_dispatch>>, <<In_Fix, In_fixBang>>,
     <<In_Fix, Str_dispatch>>}

\* values of --name ("" when the option is absent): a name without any
\* letter or digit is used as typed
NoName == <<>>
Name_bar == <<"|">>
NameOverrides == {NoName, Name_bar}

\* values of --prompt-file ("" when the option is absent)
NoPromptFile == ""
PromptFileArgs == {NoPromptFile}

\* the prompt files on disk: name -> lines of the file
PromptFilesOnDisk == [f \in {"task.md"} |-> << <<"#", " ", "b">> >>]

\* titles fetchLinearTicket may return for a reference: the reference itself
\* (no API key, network error, no match) or the fetched title
\* a || b on strings
OrElse(a, b) == IF a # <<>> THEN a ELSE b

\* how the request of fetchLinearTicket ends
FetchOutcomes == {"no-key", "network-error", "no-match", "found"}

\* titles of the issue found ("" when the node has no title)
FetchedTitles == {In_Fix, In_bang, <<>>}

\* a fetch that found nothing leaves the title empty
fetchLinearTicket_NoTitle(ticketId, outcome, fetched) ==
    IF outcome = "found" THEN OrElse(fetched, ticketId) ELSE <<>>

\* fetchLinearTicket(ticketId).title
fetchLinearTicket(ticketId, outcome, fetched) ==
    IF outcome = "found" THEN OrElse(fetched, ticketId) ELSE ticketId

Titles(input) ==
    {fetchLinearTicket(input, o, t) : o \in FetchOutcomes, t \in FetchedTitles}

\* the last six digits of Date.now() at the time of the launch
TimeTags == {<<"0", "0", "0", "0", "0", "1">>}

(***************************************************************************)
(* Identity resolution (launchAgent, first part)                           *)
(***************************************************************************)
RECURSIVE StripHeading(_)
RECURSIVE StripSpaces(_)
StripSpaces(s) ==
    IF s # <<>> /\ Head(s) = " " THEN StripSpaces(Tail(s)) ELSE s

\* .replace(/^#+\s*/, "")
StripHeading(s) ==
    IF s # <<>> /\ Head(s) = "#"
    THEN IF Len(s) > 1 /\ s[2] = "#" THEN StripHeading(Tail(s))
         ELSE StripSpaces(Tail(s))
    ELSE s

\* prompt.split("\n").find((l) => l.trim().length > 0) || ""
FirstNonEmptyLine(lines) ==
    IF \E i \in DOMAIN lines : StripSpaces(lines[i]) # <<>>
    THEN lines[CHOOSE i \in DOMAIN lines :
                  /\ StripSpaces(lines[i]) # <<>>
                  /\ \A j \in 1 .. (i - 1) : StripSpaces(lines[j]) = <<>>]
    ELSE <<>>

\* the name derived from the prompt file replaces a --name as well
ResolveIdentity_FileWins(input, nameOverride, promptFileArg, title, timeTag) ==
    LET isTicket == TICKET_RE(input)
        id0 == IF isTicket
               THEN ToLower(input) \o <<"-">> \o slugify(title)
               ELSE OrElse(slugify(input), <<"t","a","s","k","-">> \o timeTag)
        id1 == IF nameOverride # <<>>
               THEN OrElse(slugify(nameOverride), nameOverride)
               ELSE id0
        fileOk == promptFileArg \in DOMAIN PromptFilesOnDisk
        derived == IF fileOk
                   THEN slugify(StripHeading(
                            FirstNonEmptyLine(PromptFilesOnDisk[promptFileArg])))
                   ELSE <<>>
        id2 == IF promptFileArg # NoPromptFile /\ fileOk /\ derived # <<>>
               THEN derived
               ELSE id1
    IN  [ok |-> (promptFileArg = NoPromptFile \/ fileOk),
         id |-> id2,
         branch |-> id2,
         prompt |-> IF promptFileArg # NoPromptFile /\ fileOk
                    THEN <<"file", promptFileArg>>
                    ELSE IF isTicket THEN <<"ticket", input, title>>
                    ELSE <<"text", input>>]

\* The id, branch and prompt launchAgent computes before the duplicate check.
\* ok = FALSE is the early return on a missing prompt file.
ResolveIdentity(input, nameOverride, promptFileArg, title, timeTag) ==
    LET isTicket == TICKET_RE(input)
        id0 == IF isTicket
               THEN ToLower(input) \o <<"-">> \o slugify(title)
               ELSE OrElse(slugify(input), <<"t","a","s","k","-">> \o timeTag)
        prompt0 == IF isTicket THEN <<"ticket", input, title>>
                   ELSE <<"text", input>>
        id1 == IF nameOverride # <<>>
               THEN OrElse(slugify(nameOverride), nameOverride)
               ELSE id0
        fileOk == promptFileArg \in DOMAIN PromptFilesOnDisk
        derived == IF fileOk
                   THEN slugify(StripHeading(
                            FirstNonEmptyLine(PromptFilesOnDisk[promptFileArg])))
                   ELSE <<>>
        id2 == IF /\ promptFileArg # NoPromptFile /\ fileOk
                  /\ nameOverride = <<>> /\ ~isTicket /\ derived # <<>>
               THEN derived
               ELSE id1
    IN  [ok |-> (promptFileArg = NoPromptFile \/ fileOk),
         id |-> id2,
         branch |-> id2,
         prompt |-> IF promptFileArg # NoPromptFile /\ fileOk
                    THEN <<"file", promptFileArg>>
                    ELSE prompt0]

\* ids the modelled runs can resolve to; the arguments of stop/resume/cleanup
AgentIds == {slugify(i) : i \in Inputs}

(***************************************************************************)
(* Paths and files                                                         *)
(***************************************************************************)
\* gitRoot()
GitRoot == <<"root">>
\* worktreePath(id, config) = join(gitRoot(), config.worktreeDir, id)
worktreePath(id) == <<"root", ".worktrees", id>>

PromptFileName == ".dispatch-prompt.txt"
LogFileName == ".dispatch.log"

\* #{pane_current_path} as text
JoinPath(path) ==
    IF Len(path) = 3
    THEN <<path[1], "/", path[2], "/">> \o path[3]
    ELSE path

\* a file that may be missing: existsSync(path) and its text
NoFile == [exists |-> FALSE, text |-> <<>>]
FileOf(text) == [exists |-> TRUE, text |-> text]
NL == "\n"

\* A text is a sequence of pieces: the newline, or a stretch of characters
\* without one.  text.split("\n"): the stretches between the newlines, each
\* a text, the empty ones included
RECURSIVE SplitLines(_)
SplitLines(text) ==
    IF \A k \in DOMAIN text : text[k] # NL THEN <<text>>
    ELSE LET k == CHOOSE k \in DOMAIN text :
                     /\ text[k] = NL
                     /\ \A j \in 1 .. (k - 1) : text[j] # NL
         IN  <<SubSeq(text, 1, k - 1)>>
                \o SplitLines(SubSeq(text, k + 1, Len(text)))

\* lines.join("\n")
RECURSIVE JoinLines(_)
JoinLines(lines) ==
    IF lines = <<>> THEN <<>>
    ELSE IF Len(lines) = 1 THEN lines[1]
    ELSE lines[1] \o <<NL>> \o JoinLines(Tail(lines))

\* `${config.worktreeDir}/` with the default worktreeDir
IgnoreEntry == <<".worktrees/">>

\* the entry appended whether or not a line of the file equals it
ensureWorktreeDir_AlwaysAppend(file) ==
    IF ~file.exists THEN FileOf(IgnoreEntry \o <<NL>>)
    ELSE FileOf(file.text \o <<NL>> \o IgnoreEntry \o <<NL>>)

\* ensureWorktreeDir: the .gitignore it leaves
ensureWorktreeDir(file) ==
    IF ~file.exists THEN FileOf(IgnoreEntry \o <<NL>>)
    ELSE IF \E k \in DOMAIN SplitLines(file.text) :
               SplitLines(file.text)[k] = IgnoreEntry
    THEN file
    ELSE FileOf(file.text \o <<NL>> \o IgnoreEntry \o <<NL>>)

(***************************************************************************)
(* State                                                                   *)
(***************************************************************************)
VARIABLES
    session,     \* TRUE iff the tmux session "dispatch" exists
    sessionCmds, \* the `tmux set` commands issued on the living session
    windows,     \* the windows of the session, in creation order
    worktrees,   \* ids whose worktree directory exists
    gitignore,   \* the file .gitignore of the repository root
    branches,    \* local branch names
    files,       \* <<dir, name>> of the files written in working directories
    texts,       \* the text of each of these files
    buffers,     \* names of the tmux paste buffers that exist
    proc         \* per dispatch process: the running command and its locals

vars == <<session, sessionCmds, windows, worktrees, gitignore, branches,
          files, texts, buffers, proc>>

IdleProc ==
    [pc |-> "idle", cmd |-> "none", ncmds |-> 0, exit |-> -1,
     inputs |-> <<>>, headless |-> FALSE, skipWorktree |-> FALSE,
     nameOverride |-> <<>>, promptFileArg |-> NoPromptFile,
     deleteBranch |-> FALSE, noAttach |-> FALSE,
     idx |-> 0, id |-> <<>>, branch |-> <<>>, prompt |-> <<>>,
     wtPath |-> <<>>, created |-> FALSE, waited |-> 0, rmResult |-> FALSE,
     outcome |-> "none", wtAdded |-> FALSE, attached |-> FALSE,
     trace |-> <<>>, batch |-> <<>>, report |-> <<>>, fetch |-> "none",
     model |-> "", maxTurns |-> "", maxBudget |-> "", extraArgs |-> "",
     claudeCmd |-> <<>>, cfg |-> <<>>, config |-> <<>>,
     attach |-> <<>>, typed |-> <<>>, all |-> FALSE, todo |-> <<>>,
     entries |-> <<>>, args |-> <<>>]

Init ==
    /\ session = FALSE
    /\ sessionCmds = <<>>
    /\ windows = <<>>
    /\ worktrees = {}
    /\ gitignore = NoFile
    /\ branches = {}
    /\ files = {}
    /\ texts = <<>>
    /\ buffers = {}
    /\ proc = [p \in Procs |-> IdleProc]

(***************************************************************************)
(* tmux and process helpers                                                *)
(***************************************************************************)
Upd(p, r) == proc' = [proc EXCEPT ![p] = r]

Log(s, ev) == [s EXCEPT !.trace = Append(@, ev)]

\* the prompt as the string handed to buildClaudeCmd and to writeFileSync:
\* the input itself, the ticket template (for a ticket without description)
\* or the text read from the prompt file
PromptText(prompt) ==
    IF prompt[1] = "text" THEN prompt[2]
    ELSE IF prompt[1] = "ticket"
    THEN <<"Work on ticket ">> \o prompt[2] \o <<": ">> \o prompt[3] \o
         <<". Create commits as you go. When done, push the branch.">>
    ELSE JoinLines(PromptFilesOnDisk[prompt[2]])

\* the prompt of a headless resume
ResumePrompt == <<"Continue working on the task.">>

\* only the first line of the text reaches the file
WriteFile_FirstLine(dir, name, text) ==
    /\ files' = files \cup {<<dir, name>>}
    /\ texts' = [f \in files' |->
                      IF f = <<dir, name>> THEN SplitLines(text)[1]
                      ELSE texts[f]]

\* writeFileSync(join(dir, name), text)
WriteFile(dir, name, text) ==
    /\ files' = files \cup {<<dir, name>>}
    /\ texts' = [f \in files' |->
                      IF f = <<dir, name>> THEN text ELSE texts[f]]

\* process.exit(code), or an uncaught exception reaching main().catch
ExitWith(s, code) == [s EXCEPT !.pc = "ended", !.exit = code]

\* the output of list-windows compared as a whole, not line by line
windowExists_NoSplit(id) ==
    /\ session
    /\ Len(windows) = 1
    /\ windows[1].name = id

\* windowExists(id): list-windows -F "#{window_name}", null when it fails
windowExists(id) ==
    /\ session
    /\ \E i \in DOMAIN windows : windows[i].name = id

\* tmuxHasSession(): the status of has-session -t dispatch is 0
tmuxHasSession == session

\* the windows a target "dispatch:<id>" may denote
TargetIdx(id) == {i \in DOMAIN windows : windows[i].name = id}

\* tmux resolves "dispatch:<id>" only when exactly one window has that name
tmuxTarget(id) ==
    IF session /\ Cardinality(TargetIdx(id)) = 1
    THEN CHOOSE i \in TargetIdx(id) : TRUE
    ELSE 0

\* tmux send-keys -t "dispatch:<id>" <keys>, on a resolvable target
SendKeys(id, keys) ==
    [windows EXCEPT ![tmuxTarget(id)].keys = Append(@, keys)]

RemoveAt(seq, i) == SubSeq(seq, 1, i - 1) \o SubSeq(seq, i + 1, Len(seq))

\* a new window runs a shell; job is the position of the shell in the
\* headless command line it is executing (0: at its prompt), ran the
\* number of headless lines it has taken, tasksEnded, taskExit and notified
\* what became of their commands
NewWindow(id, cwd) ==
    [name |-> id, cwd |-> cwd, colour |-> -1, keys |-> <<>>, pane |-> "clear",
     job |-> 0, ran |-> 0, tasksEnded |-> 0, taskExit |-> -1, notified |-> 0]

(***************************************************************************)
(* tmuxAttach                                                              *)
(***************************************************************************)
\* the terminal applications openTerminalTabAppleScript knows, in its order
Terminals == <<"iTerm2", "Warp", "Terminal">>

\* what the process finds around it when it attaches: process.stdin.isTTY,
\* process.platform, and the applications System Events reports running
\* (a probe that fails reports nothing)
AttachEnvs ==
    [tty : BOOLEAN, platform : {"darwin", "linux"},
     running : SUBSET {"iTerm2", "Warp", "Terminal"}]

\* the probes of openTerminalTabAppleScript from the k-th terminal on: each
\* asks System Events for one application, the first found ends the loop
RECURSIVE ProbeTerminals(_, _)
ProbeTerminals(k, running) ==
    IF k > Len(Terminals) THEN <<>>
    ELSE IF Terminals[k] \in running
    THEN <<[name |-> Terminals[k], found |-> TRUE]>>
    ELSE <<[name |-> Terminals[k], found |-> FALSE]>>
            \o ProbeTerminals(k + 1, running)

\* every terminal probed, whatever the earlier probes found: the script is
\* that of the last one found
openTerminalTabAppleScript_LastFound(target, running) ==
    LET probes == [k \in DOMAIN Terminals |->
                      [name |-> Terminals[k],
                       found |-> Terminals[k] \in running]]
        found == {k \in DOMAIN probes : probes[k].found}
    IN  [probes |-> probes,
         script |-> IF found = {} THEN "null"
                    ELSE Terminals[CHOOSE k \in found :
                                      \A j \in found : j <= k],
         colour |-> 0]

\* openTerminalTabAppleScript(target): the script of the first terminal
\* found running, null without one; the tab colour of the script is
\* TAB_COLORS[max(0, idx) % length], idx the 0-based place of the addressed
\* name among the windows (-1 when it is not there)
openTerminalTabAppleScript(target, running) ==
    LET agentName == target[Len(target)]
        at == {i \in DOMAIN windows : session /\ windows[i].name = agentName}
        idx == IF at = {} THEN -1
               ELSE (CHOOSE i \in at : \A j \in at : i <= j) - 1
        probes == ProbeTerminals(1, running)
    IN  [probes |-> probes,
         script |-> IF probes # <<>> /\ probes[Len(probes)].found
                    THEN probes[Len(probes)].name ELSE "null",
         colour |-> (IF idx < 0 THEN 0 ELSE idx) % PaletteSize]

\* tmuxAttach(window): what it did, with what it had read to decide.
\* how is "attach" (tmux attach in this terminal), "osascript" (the script
\* of a terminal application run) or "warn" (the manual instruction
\* printed); spawnSync reports a failing command in its result and never
\* throws
tmuxAttach(window, e) ==
    LET target == IF window # <<>> THEN <<DISPATCH_SESSION, window>>
                  ELSE <<DISPATCH_SESSION>>
        r == openTerminalTabAppleScript(target, e.running)
    IN  IF e.tty
        THEN [how |-> "attach", target |-> target, tty |-> TRUE,
              platform |-> "unread", probes |-> <<>>, script |-> "null"]
        ELSE IF e.platform = "darwin"
        THEN [how |-> IF r.script # "null" THEN "osascript" ELSE "warn",
              target |-> target, tty |-> FALSE, platform |-> e.platform,
              probes |-> r.probes, script |-> r.script]
        ELSE [how |-> "warn", target |-> target, tty |-> FALSE,
              platform |-> e.platform, probes |-> <<>>, script |-> "null"]

\* the command attaches when `attaches` holds
Attaching(s, attaches, window, e) ==
    [s EXCEPT !.attached = attaches,
              !.attach = IF attaches THEN tmuxAttach(window, e) ELSE <<>>]

(***************************************************************************)
(* dispatch run: cmdRun and launchAgent                                    *)
(***************************************************************************)
RECURSIVE SumCmds(_)
SumCmds(S) ==
    IF S = {} THEN 0
    ELSE LET q == CHOOSE x \in S : TRUE IN proc[q].ncmds + SumCmds(S \ {q})

\* a process starts its next invocation when the previous one has ended
CanStart(p) == proc[p].pc \in {"idle", "ended"}

\* fewer than n invocations have been started
Budget(n) == SumCmds(Procs) < n

\* no argument where one is required
NoArg == <<>>

\* the usage message and process.exit(1)
Usage(s) == ExitWith(Log(s, "usage"), 1)

\* cmdRun: the arguments are parsed and the loop over the inputs begins;
\* without an input and without a prompt file the usage is printed
StartRun(p, lists, flags, names) ==
    /\ CanStart(p)
    /\ \E ins \in lists, f \in flags,
          n \in names, pf \in PromptFileArgs :
          LET s == [IdleProc EXCEPT !.pc = "resolve", !.cmd = "run",
                       !.ncmds = proc[p].ncmds + 1,
                       !.inputs = ins, !.headless = f[1],
                       !.skipWorktree = f[2],
                       !.nameOverride = n, !.promptFileArg = pf, !.idx = 1]
          IN  Upd(p, IF ins = <<>> /\ pf = NoPromptFile
                     THEN Usage(s) ELSE s)
    /\ UNCHANGED <<session, sessionCmds, windows, worktrees, gitignore, branches, files, texts, buffers>>

\* the words of a command line, as sequences of characters: the options
\* cmdRun recognises
Opt_headless == <<"-", "-", "h", "e", "a", "d", "l", "e", "s", "s">>
Opt_H == <<"-", "H">>
Opt_model == <<"-", "-", "m", "o", "d", "e", "l">>
Opt_m == <<"-", "m">>
Opt_maxTurns == <<"-", "-", "m", "a", "x", "-", "t", "u", "r", "n", "s">>
Opt_maxBudget == <<"-", "-", "m", "a", "x", "-", "b", "u", "d", "g", "e", "t">>
Opt_base == <<"-", "-", "b", "a", "s", "e">>
Opt_b == <<"-", "b">>
Opt_promptFile == <<"-", "-", "p", "r", "o", "m", "p", "t", "-", "f", "i", "l", "e">>
Opt_f == <<"-", "f">>
Opt_noWorktree == <<"-", "-", "n", "o", "-", "w", "o", "r", "k", "t", "r", "e", "e">>
Opt_noAttach == <<"-", "-", "n", "o", "-", "a", "t", "t", "a", "c", "h">>
Opt_name == <<"-", "-", "n", "a", "m", "e">>
Opt_n == <<"-", "n">>

\* a word as a string
RECURSIVE Text(_)
Text(w) == IF w = <<>> THEN "" ELSE Head(w) \o Text(Tail(w))

\* args[k], undefined past the end (read as the empty word: both are falsy)
ArgAt(args, k) == IF k <= Len(args) THEN args[k] ELSE <<>>

\* arg.startsWith("--")
StartsWithDashes(arg) == Len(arg) >= 2 /\ arg[1] = "-" /\ arg[2] = "-"

\* what cmdRun has parsed before its loop starts
NoRunArgs ==
    [inputs |-> <<>>, headless |-> FALSE, promptFile |-> "",
     extraArgs |-> "", skipWorktree |-> FALSE, nameOverride |-> <<>>,
     noAttach |-> FALSE, model |-> "", maxTurns |-> "", maxBudget |-> "",
     baseBranch |-> ""]

\* cmdRun: the loop over args from position i, one word (or an option and
\* its value) at a time
RECURSIVE ParseRunArgs(_, _, _)
ParseRunArgs(args, i, r) ==
    IF i > Len(args) THEN r
    ELSE LET arg == args[i]
             value == ArgAt(args, i + 1) IN
         IF arg \in {Opt_headless, Opt_H}
         THEN ParseRunArgs(args, i + 1, [r EXCEPT !.headless = TRUE])
         ELSE IF arg \in {Opt_model, Opt_m}
         THEN ParseRunArgs(args, i + 2, [r EXCEPT !.model = Text(value)])
         ELSE IF arg = Opt_maxTurns
         THEN ParseRunArgs(args, i + 2, [r EXCEPT !.maxTurns = Text(value)])
         ELSE IF arg = Opt_maxBudget
         THEN ParseRunArgs(args, i + 2, [r EXCEPT !.maxBudget = Text(value)])
         ELSE IF arg \in {Opt_base, Opt_b}
         THEN ParseRunArgs(args, i + 2, [r EXCEPT !.baseBranch = Text(value)])
         ELSE IF arg \in {Opt_promptFile, Opt_f}
         THEN ParseRunArgs(args, i + 2, [r EXCEPT !.promptFile = Text(value)])
         ELSE IF arg = Opt_noWorktree
         THEN ParseRunArgs(args, i + 1, [r EXCEPT !.skipWorktree = TRUE])
         ELSE IF arg = Opt_noAttach
         THEN ParseRunArgs(args, i + 1, [r EXCEPT !.noAttach = TRUE])
         ELSE IF arg \in {Opt_name, Opt_n}
         THEN ParseRunArgs(args, i + 2, [r EXCEPT !.nameOverride = value])
         ELSE IF StartsWithDashes(arg)
         THEN ParseRunArgs(args, i + 1,
                 [r EXCEPT !.extraArgs = @ \o " " \o Text(arg)])
         ELSE ParseRunArgs(args, i + 1, [r EXCEPT !.inputs = Append(@, arg)])

\* cmdRun on a command line: the words are parsed, then the loop over the
\* inputs begins; without an input and without a prompt file the usage is
\* printed
StartRunArgs(p, argLists) ==
    /\ CanStart(p)
    /\ \E args \in argLists :
          LET r == ParseRunArgs(args, 1, NoRunArgs)
              s == [IdleProc EXCEPT !.pc = "resolve", !.cmd = "run",
                       !.ncmds = proc[p].ncmds + 1, !.args = args,
                       !.inputs = r.inputs, !.headless = r.headless,
                       !.skipWorktree = r.skipWorktree,
                       !.noAttach = r.noAttach,
                       !.nameOverride = r.nameOverride,
                       !.promptFileArg = r.promptFile,
                       !.model = r.model, !.maxTurns = r.maxTurns,
                       !.maxBudget = r.maxBudget,
                       !.extraArgs = r.extraArgs, !.idx = 1]
          IN  Upd(p, IF r.inputs = <<>> /\ r.promptFile = ""
                     THEN Usage(s) ELSE s)
    /\ UNCHANGED <<session, sessionCmds, windows, worktrees, gitignore, branches, files, texts, buffers>>

\* launchAgent, up to the duplicate check: id, branch and prompt
LaunchResolve(p) ==
    LET s == proc[p]
        input == s.inputs[s.idx] IN
    /\ s.pc = "resolve"
    /\ \E o \in (IF TICKET_RE(input) THEN FetchOutcomes ELSE {"none"}),
          t \in FetchedTitles, tag \in TimeTags :
          LET title == IF TICKET_RE(input)
                       THEN fetchLinearTicket(input, o, t) ELSE input
              r == ResolveIdentity(input, s.nameOverride, s.promptFileArg,
                                   title, tag)
              s1 == [s EXCEPT !.id = r.id, !.branch = r.branch,
                              !.fetch = o,
                              !.prompt = r.prompt, !.wtPath = <<>>,
                              !.created = FALSE, !.waited = 0,
                              !.wtAdded = FALSE, !.outcome = "none",
                              !.trace = <<"resolve">>] IN
          IF r.ok
          THEN Upd(p, [s1 EXCEPT !.pc = "check"])
          ELSE Upd(p, [s1 EXCEPT !.pc = "launch_done",
                                 !.outcome = "no_prompt_file"])
    /\ UNCHANGED <<session, sessionCmds, windows, worktrees, gitignore, branches, files, texts, buffers>>

\* the duplicate check left out: every launch goes on to provisioning
LaunchCheckExisting_NoGuard(p) ==
    LET s == proc[p] IN
    /\ s.pc = "check"
    /\ Upd(p, [Log(s, "check:free") EXCEPT !.pc = "provision"])
    /\ UNCHANGED <<session, sessionCmds, windows, worktrees, gitignore, branches, files, texts, buffers>>

\* the check made atomic with the creation: a free id is taken at once
LaunchCheckExisting_Reserving(p) ==
    LET s == proc[p] IN
    /\ s.pc = "check"
    /\ IF windowExists(s.id)
       THEN /\ Upd(p, [Log(s, "check:exists") EXCEPT
                          !.pc = "launch_done", !.outcome = "duplicate"])
            /\ UNCHANGED <<session, sessionCmds, windows>>
       ELSE /\ session' = TRUE
            /\ sessionCmds' = sessionCmds
            /\ windows' = Append(windows, NewWindow(s.id, GitRoot))
            /\ Upd(p, [Log(s, "check:free") EXCEPT !.pc = "provision"])
    /\ UNCHANGED <<worktrees, gitignore, branches, files, texts, buffers>>

\* launchAgent: "Check if already running"
LaunchCheckExisting(p) ==
    LET s == proc[p] IN
    /\ s.pc = "check"
    /\ IF windowExists(s.id)
       THEN Upd(p, [Log(s, "check:exists") EXCEPT
                       !.pc = "launch_done", !.outcome = "duplicate"])
       ELSE Upd(p, [Log(s, "check:free") EXCEPT !.pc = "provision"])
    /\ UNCHANGED <<session, sessionCmds, windows, worktrees, gitignore, branches, files, texts, buffers>>

\* launchAgent with --no-worktree: wtPath = gitRoot()
LaunchNoWorktree(p) ==
    LET s == proc[p] IN
    /\ s.pc = "provision"
    /\ s.skipWorktree
    /\ Upd(p, [Log(s, "wt:skipped") EXCEPT
                  !.pc = "cw_exists", !.wtPath = GitRoot])
    /\ UNCHANGED <<session, sessionCmds, windows, worktrees, gitignore, branches, files, texts, buffers>>

\* an existing worktree directory is cleared and added again
CreateWorktreeExists_Recreate(p) ==
    LET s == proc[p] IN
    /\ s.pc = "provision"
    /\ ~s.skipWorktree
    /\ IF s.id \in worktrees
       THEN /\ files' = {f \in files : f[1] # worktreePath(s.id)}
            /\ texts' = [f \in files' |-> texts[f]]
            /\ UNCHANGED gitignore
            /\ Upd(p, [Log(s, "wt:exists") EXCEPT
                          !.pc = "cw_exists", !.wtPath = worktreePath(s.id)])
       ELSE /\ UNCHANGED <<files, texts>>
            /\ gitignore' = ensureWorktreeDir(gitignore)
            /\ Upd(p, [Log(s, "wt:missing") EXCEPT !.pc = "wt_add_new"])
    /\ UNCHANGED <<session, sessionCmds, windows, worktrees, branches, buffers>>

\* createWorktree: existsSync(wtPath), and ensureWorktreeDir when the
\* worktree has to be made
CreateWorktreeExists(p) ==
    LET s == proc[p] IN
    /\ s.pc = "provision"
    /\ ~s.skipWorktree
    /\ IF s.id \in worktrees
       THEN /\ UNCHANGED gitignore
            /\ Upd(p, [Log(s, "wt:exists") EXCEPT
                          !.pc = "cw_exists", !.wtPath = worktreePath(s.id)])
       ELSE /\ gitignore' = ensureWorktreeDir(gitignore)
            /\ Upd(p, [Log(s, "wt:missing") EXCEPT !.pc = "wt_add_new"])
    /\ UNCHANGED <<session, sessionCmds, windows, worktrees, branches, files, texts, buffers>>

\* no fallback: a failed `git worktree add -b` is fatal at once
CreateWorktreeAddNew_FatalOnFail(p) ==
    LET s == proc[p] IN
    /\ s.pc = "wt_add_new"
    /\ \E remoteOk \in BOOLEAN :
          IF remoteOk /\ s.branch \notin branches /\ s.id \notin worktrees
          THEN /\ worktrees' = worktrees \cup {s.id}
               /\ UNCHANGED gitignore
               /\ branches' = branches \cup {s.branch}
               /\ Upd(p, [Log(s, "git:add-b:ok") EXCEPT
                             !.pc = "cw_exists", !.wtAdded = TRUE,
                             !.wtPath = worktreePath(s.id)])
          ELSE /\ UNCHANGED <<worktrees, gitignore, branches>>
               /\ Upd(p, ExitWith(Log(s, "git:add-b:fail"), 1))
    /\ UNCHANGED <<session, sessionCmds, windows, files, texts, buffers>>

\* createWorktree: git worktree add -b <branch> <wtPath> origin/<baseBranch>.
\* git refuses when the branch or the path exists; the remote ref may be
\* missing, which is the environment's choice.
CreateWorktreeAddNew(p) ==
    LET s == proc[p] IN
    /\ s.pc = "wt_add_new"
    /\ \E remoteOk \in BOOLEAN :
          IF remoteOk /\ s.branch \notin branches /\ s.id \notin worktrees
          THEN /\ worktrees' = worktrees \cup {s.id}
               /\ UNCHANGED gitignore
               /\ branches' = branches \cup {s.branch}
               /\ Upd(p, [Log(s, "git:add-b:ok") EXCEPT
                             !.pc = "cw_exists", !.wtAdded = TRUE,
                             !.wtPath = worktreePath(s.id)])
          ELSE /\ UNCHANGED <<worktrees, gitignore, branches>>
               /\ Upd(p, [Log(s, "git:add-b:fail") EXCEPT
                             !.pc = "wt_add_existing"])
    /\ UNCHANGED <<session, sessionCmds, windows, files, texts, buffers>>

\* a failed fallback aborts this launch only and returns to the batch loop
CreateWorktreeAddExisting_ContinueBatch(p) ==
    LET s == proc[p] IN
    /\ s.pc = "wt_add_existing"
    /\ \E gitOk \in BOOLEAN :
          IF gitOk /\ s.branch \in branches /\ s.id \notin worktrees
          THEN /\ worktrees' = worktrees \cup {s.id}
               /\ UNCHANGED gitignore
               /\ Upd(p, [Log(s, "git:add:ok") EXCEPT
                             !.pc = "cw_exists", !.wtAdded = TRUE,
                             !.wtPath = worktreePath(s.id)])
          ELSE /\ UNCHANGED <<worktrees, gitignore>>
               /\ Upd(p, [Log(s, "git:add:fail") EXCEPT
                             !.pc = "launch_done", !.outcome = "failed"])
    /\ UNCHANGED <<session, sessionCmds, windows, branches, files, texts, buffers>>

\* createWorktree: git worktree add <wtPath> <branch>, the fallback.
\* It needs the local branch and a free path; git may still refuse (the
\* branch is checked out elsewhere, stale worktree metadata).
CreateWorktreeAddExisting(p) ==
    LET s == proc[p] IN
    /\ s.pc = "wt_add_existing"
    /\ \E gitOk \in BOOLEAN :
          IF gitOk /\ s.branch \in branches /\ s.id \notin worktrees
          THEN /\ worktrees' = worktrees \cup {s.id}
               /\ UNCHANGED gitignore
               /\ Upd(p, [Log(s, "git:add:ok") EXCEPT
                             !.pc = "cw_exists", !.wtAdded = TRUE,
                             !.wtPath = worktreePath(s.id)])
          ELSE /\ UNCHANGED <<worktrees, gitignore>>
               /\ Upd(p, ExitWith(Log(s, "git:add:fail"), 1))
    /\ UNCHANGED <<session, sessionCmds, windows, branches, files, texts, buffers>>

(***************************************************************************)
(* createWindow (shared by launchAgent and cmdResume)                      *)
(***************************************************************************)
\* the palette indexed by the count itself
TabColour_ByCount(count) == count % PaletteSize

\* TAB_COLORS[(count - 1) % TAB_COLORS.length], as an index into the palette
TabColour(count) == (count - 1) % PaletteSize

\* where createWindow returns to
AfterCreateWindow(s) == IF s.cmd = "run" THEN "build" ELSE "resume_start"

\* the colour applied before the guard: an existing window is repainted
CreateWindowExists_Recolour(p) ==
    LET s == proc[p] IN
    /\ s.pc = "cw_exists"
    /\ IF windowExists(s.id)
       THEN /\ windows' = [i \in DOMAIN windows |->
                              IF windows[i].name = s.id
                              THEN [windows[i] EXCEPT
                                       !.colour = TabColour(Len(windows) + 1),
                                       !.keys = Append(@, "title")]
                              ELSE windows[i]]
            /\ Upd(p, [Log(s, "cw:exists") EXCEPT
                          !.pc = AfterCreateWindow(s), !.created = FALSE])
       ELSE /\ UNCHANGED windows
            /\ Upd(p, [Log(s, "cw:free") EXCEPT !.pc = "cw_has_session"])
    /\ UNCHANGED <<session, sessionCmds, worktrees, gitignore, branches, files, texts, buffers>>

\* createWindow: the windowExists guard; an existing window is a no-op
CreateWindowExists(p) ==
    LET s == proc[p] IN
    /\ s.pc = "cw_exists"
    /\ IF windowExists(s.id)
       THEN Upd(p, [Log(s, "cw:exists") EXCEPT
                       !.pc = AfterCreateWindow(s), !.created = FALSE])
       ELSE Upd(p, [Log(s, "cw:free") EXCEPT !.pc = "cw_has_session"])
    /\ UNCHANGED <<session, sessionCmds, windows, worktrees, gitignore, branches, files, texts, buffers>>

\* the `tmux set -t dispatch ...` commands of ensureSession, in order
SessionOptions ==
    <<"mouse on", "history-limit 50000", "set-titles on",
      "set-titles-string #W">>

\* the options set again for every window created in a living session
EnsureSessionHas_Reconfigure(p) ==
    LET s == proc[p] IN
    /\ s.pc = "cw_has_session"
    /\ Upd(p, [s EXCEPT !.pc = IF session THEN "cw_new_window"
                                ELSE "cw_new_session"])
    /\ sessionCmds' = IF session THEN sessionCmds \o SessionOptions
                      ELSE sessionCmds
    /\ UNCHANGED <<session, windows, worktrees, gitignore, branches, files, texts, buffers>>

\* ensureSession: tmux has-session -t dispatch
EnsureSessionHas(p) ==
    LET s == proc[p] IN
    /\ s.pc = "cw_has_session"
    /\ Upd(p, [s EXCEPT !.pc = IF session THEN "cw_new_window"
                                ELSE "cw_new_session"])
    /\ UNCHANGED <<session, sessionCmds, windows, worktrees, gitignore, branches, files, texts, buffers>>

\* ensureSession: tmux new-session -d -s dispatch -n dispatch, then the
\* session options and the banner typed into the control window
EnsureSessionNew(p) ==
    LET s == proc[p] IN
    /\ s.pc = "cw_new_session"
    /\ IF session
       THEN \* duplicate session: execSync throws
            /\ Upd(p, ExitWith(Log(s, "tmux:new-session:fail"), 1))
            /\ UNCHANGED <<session, sessionCmds, windows>>
       ELSE /\ session' = TRUE
            /\ sessionCmds' = SessionOptions
            /\ windows' = << [NewWindow(DISPATCH_SESSION, GitRoot) EXCEPT
                                 !.keys = <<"banner">>] >>
            /\ Upd(p, [Log(s, "tmux:new-session") EXCEPT
                          !.pc = "cw_new_window"])
    /\ UNCHANGED <<worktrees, gitignore, branches, files, texts, buffers>>

\* createWindow: tmux new-window -a -t dispatch -n <id> -c <cwd>;
\* a non-zero status is fatal
CreateWindowNew(p) ==
    LET s == proc[p] IN
    /\ s.pc = "cw_new_window"
    /\ \E tmuxOk \in BOOLEAN :
          IF tmuxOk /\ session
          THEN /\ windows' = Append(windows, NewWindow(s.id, s.wtPath))
               /\ Upd(p, [Log(s, "tmux:new-window") EXCEPT
                             !.pc = "cw_colour"])
          ELSE /\ UNCHANGED windows
               /\ Upd(p, ExitWith(Log(s, "tmux:new-window:fail"), 1))
    /\ UNCHANGED <<session, sessionCmds, worktrees, gitignore, branches, files, texts, buffers>>

\* createWindow: window options, the colour from the window count, and the
\* title/colour escape sequence typed into the new window
CreateWindowColour(p) ==
    LET s == proc[p] IN
    /\ s.pc = "cw_colour"
    /\ IF tmuxTarget(s.id) # 0
       THEN /\ windows' = [SendKeys(s.id, "title") EXCEPT
                              ![tmuxTarget(s.id)].colour =
                                  TabColour(Len(windows))]
            /\ Upd(p, [Log(s, "cw:created") EXCEPT
                          !.pc = AfterCreateWindow(s), !.created = TRUE])
       ELSE /\ UNCHANGED windows
            /\ Upd(p, ExitWith(Log(s, "tmux:send-keys:fail"), 1))
    /\ UNCHANGED <<session, sessionCmds, worktrees, gitignore, branches, files, texts, buffers>>

(***************************************************************************)
(* launchAgent: starting the process and delivering the prompt             *)
(***************************************************************************)
\* the directory can be written to
DirExists(path) ==
    \/ path = GitRoot
    \/ \E id \in worktrees : path = worktreePath(id)

\* config.allowedTools (DEFAULTS)
AllowedTools == "Bash,Read,Write,Edit,Glob,Grep,Task,WebSearch,WebFetch"

\* join(wtPath, ".dispatch-prompt.txt") as text
PromptPath(wtPath) == JoinPath(wtPath) \o <<"/", PromptFileName>>

\* the limits of a headless run added whatever the mode
buildClaudeCmd_LimitsInAnyMode(headless, wtPath, model, maxTurns, maxBudget, extraArgs) ==
    <<"claude">>
    \o (IF headless THEN <<" -p">> ELSE <<>>)
    \o (IF model # "" THEN <<" --model ", model>> ELSE <<>>)
    \o (IF headless THEN <<" --allowedTools \"", AllowedTools, "\"">> ELSE <<>>)
    \o (IF maxTurns # "" THEN <<" --max-turns ", maxTurns>> ELSE <<>>)
    \o (IF maxBudget # "" THEN <<" --max-budget-usd ", maxBudget>> ELSE <<>>)
    \o (IF headless THEN <<" --output-format json">> ELSE <<>>)
    \o (IF extraArgs # "" THEN <<" ", extraArgs>> ELSE <<>>)
    \o (IF headless THEN <<" < '">> \o PromptPath(wtPath) \o <<"'">>
        ELSE <<>>)

\* buildClaudeCmd: the command line it returns, as the pieces it
\* concatenates (the write of the prompt file is in LaunchBuildCmd)
buildClaudeCmd(headless, wtPath, model, maxTurns, maxBudget, extraArgs) ==
    <<"claude">>
    \o (IF headless THEN <<" -p">> ELSE <<>>)
    \o (IF model # "" THEN <<" --model ", model>> ELSE <<>>)
    \o (IF headless
        THEN <<" --allowedTools \"", AllowedTools, "\"">>
             \o (IF maxTurns # "" THEN <<" --max-turns ", maxTurns>> ELSE <<>>)
             \o (IF maxBudget # "" THEN <<" --max-budget-usd ", maxBudget>>
                 ELSE <<>>)
             \o <<" --output-format json">>
        ELSE <<>>)
    \o (IF extraArgs # "" THEN <<" ", extraArgs>> ELSE <<>>)
    \o (IF headless THEN <<" < '">> \o PromptPath(wtPath) \o <<"'">>
        ELSE <<>>)

\* the command of the launch of process p
ClaudeCmdOf(s) ==
    buildClaudeCmd(s.headless, s.wtPath, s.model, s.maxTurns, s.maxBudget,
                   s.extraArgs)

\* buildClaudeCmd: in headless mode the prompt is written to the prompt file
LaunchBuildCmd(p) ==
    LET s == proc[p] IN
    /\ s.pc = "build"
    /\ IF ~s.headless
       THEN /\ Upd(p, [s EXCEPT !.pc = "start", !.claudeCmd = ClaudeCmdOf(s)])
            /\ UNCHANGED <<files, texts>>
       ELSE IF DirExists(s.wtPath)
       THEN /\ WriteFile(s.wtPath, PromptFileName, PromptText(s.prompt))
            /\ Upd(p, [Log(s, "build:write-prompt") EXCEPT
                          !.pc = "start", !.claudeCmd = ClaudeCmdOf(s)])
       ELSE /\ UNCHANGED <<files, texts>>
            /\ Upd(p, ExitWith(Log(s, "build:write-prompt:fail"), 1))
    /\ UNCHANGED <<session, sessionCmds, windows, worktrees, gitignore, branches, buffers>>

\* join(wtPath, ".dispatch.log") as text
LogPath(wtPath) == JoinPath(wtPath) \o <<"/", LogFileName>>

\* launchAgent: the line typed into the window: interactive,
\* `unset CLAUDECODE && claude ${modelFlag}`; headless, the command of
\* buildClaudeCmd piped into the log and followed by the notification
LaunchCmdOf(s) ==
    IF s.headless
    THEN <<"unset CLAUDECODE && ">> \o s.claudeCmd
         \o <<" 2>&1 | tee -a ">> \o LogPath(s.wtPath)
         \o <<"; dispatch _notify-done ">> \o s.id
    ELSE <<"unset CLAUDECODE && claude ">>
         \o (IF s.model # "" THEN <<"--model ", s.model>> ELSE <<>>)

\* the readiness wait and the paste entered in headless mode as well
LaunchStart_AlwaysWait(p) ==
    LET s == proc[p] IN
    /\ s.pc = "start"
    /\ IF tmuxTarget(s.id) # 0
       THEN /\ windows' = SendKeys(s.id, IF s.headless THEN "launch:headless"
                                         ELSE "launch:interactive")
            /\ Upd(p, [Log(s, "send:launch") EXCEPT
                               !.pc = "wait", !.typed = LaunchCmdOf(s)])
       ELSE /\ UNCHANGED windows
            /\ Upd(p, ExitWith(Log(s, "tmux:send-keys:fail"), 1))
    /\ UNCHANGED <<session, sessionCmds, worktrees, gitignore, branches, files, texts, buffers>>

\* launchAgent: tmux send-keys of the claude command line
LaunchStart(p) ==
    LET s == proc[p] IN
    /\ s.pc = "start"
    /\ IF tmuxTarget(s.id) # 0
       THEN /\ windows' = SendKeys(s.id, IF s.headless THEN "launch:headless"
                                         ELSE "launch:interactive")
            /\ IF s.headless
               THEN Upd(p, [Log(s, "send:launch") EXCEPT
                               !.pc = "launch_done", !.outcome = "launched",
                               !.typed = LaunchCmdOf(s)])
               ELSE Upd(p, [Log(s, "send:launch") EXCEPT
                               !.pc = "wait", !.typed = LaunchCmdOf(s)])
       ELSE /\ UNCHANGED windows
            /\ Upd(p, ExitWith(Log(s, "tmux:send-keys:fail"), 1))
    /\ UNCHANGED <<session, sessionCmds, worktrees, gitignore, branches, files, texts, buffers>>

\* tmuxCapture(id, 5): the pane content, "" when the capture fails
tmuxCapture(id) ==
    IF tmuxTarget(id) # 0 THEN windows[tmuxTarget(id)].pane ELSE "clear"

\* /^\s*[>?]\s*$/m.test(content) || /╭|Welcome|claude/i.test(content):
\* the echoed launch line "unset CLAUDECODE && claude ..." contains "claude",
\* the banner contains the box corner / "Welcome"
ReadyPattern(content) == content \in {"cmdline", "banner"}

\* the timeout of the readiness wait is a failure of the launch
WaitForClaude_FatalTimeout(p) ==
    LET s == proc[p] IN
    /\ s.pc = "wait"
    /\ IF s.waited < ClaudeTimeout /\ ReadyPattern(tmuxCapture(s.id))
       THEN Upd(p, [Log(s, "wait:ready") EXCEPT !.pc = "write_prompt"])
       ELSE IF s.waited + 1 < ClaudeTimeout
       THEN Upd(p, [s EXCEPT !.waited = @ + 1])
       ELSE Upd(p, ExitWith([Log(s, "wait:timeout") EXCEPT
                                !.waited = ClaudeTimeout], 1))
    /\ UNCHANGED <<session, sessionCmds, windows, worktrees, gitignore, branches, files, texts, buffers>>

\* waitForClaude: one iteration of the polling loop
WaitForClaude(p) ==
    LET s == proc[p] IN
    /\ s.pc = "wait"
    /\ IF s.waited < ClaudeTimeout /\ ReadyPattern(tmuxCapture(s.id))
       THEN Upd(p, [Log(s, "wait:ready") EXCEPT !.pc = "write_prompt"])
       ELSE IF s.waited + 1 < ClaudeTimeout
       THEN Upd(p, [s EXCEPT !.waited = @ + 1])
       ELSE Upd(p, [Log(s, "wait:timeout") EXCEPT
                       !.waited = ClaudeTimeout, !.pc = "write_prompt"])
    /\ UNCHANGED <<session, sessionCmds, windows, worktrees, gitignore, branches, files, texts, buffers>>

\* `dispatch-${id.replace(/[^a-zA-Z0-9]/g, "-")}`
BufName(id) ==
    <<"dispatch-">> \o
    [i \in DOMAIN id |->
        IF IsLower(id[i]) \/ IsUpper(id[i]) \/ IsDigit(id[i])
        THEN id[i] ELSE "-"]

\* launchAgent: writeFileSync(pf, prompt)
DeliverWritePrompt(p) ==
    LET s == proc[p] IN
    /\ s.pc = "write_prompt"
    /\ IF DirExists(s.wtPath)
       THEN /\ WriteFile(s.wtPath, PromptFileName, PromptText(s.prompt))
            /\ Upd(p, [Log(s, "write:prompt") EXCEPT !.pc = "load_buffer"])
       ELSE /\ UNCHANGED <<files, texts>>
            /\ Upd(p, ExitWith(Log(s, "write:prompt:fail"), 1))
    /\ UNCHANGED <<session, sessionCmds, windows, worktrees, gitignore, branches, buffers>>

\* launchAgent: tmux load-buffer -b <bufName> <pf>; it needs a running tmux
\* server, which without the dispatch session is the environment's choice
DeliverLoadBuffer(p) ==
    LET s == proc[p] IN
    /\ s.pc = "load_buffer"
    /\ \E serverUp \in BOOLEAN :
          IF (session \/ serverUp) /\ <<s.wtPath, PromptFileName>> \in files
          THEN /\ buffers' = buffers \cup {BufName(s.id)}
               /\ Upd(p, [Log(s, "tmux:load-buffer") EXCEPT !.pc = "paste"])
          ELSE /\ UNCHANGED buffers
               /\ Upd(p, ExitWith(Log(s, "tmux:load-buffer:fail"), 1))
    /\ UNCHANGED <<session, sessionCmds, windows, worktrees, gitignore, branches, files, texts>>

\* launchAgent: tmux paste-buffer -b <bufName> -t dispatch:<id>
DeliverPaste(p) ==
    LET s == proc[p] IN
    /\ s.pc = "paste"
    /\ IF tmuxTarget(s.id) # 0 /\ BufName(s.id) \in buffers
       THEN /\ windows' = SendKeys(s.id, "paste")
            /\ Upd(p, [Log(s, "tmux:paste-buffer") EXCEPT
                          !.pc = "delete_buffer"])
       ELSE /\ UNCHANGED windows
            /\ Upd(p, ExitWith(Log(s, "tmux:paste-buffer:fail"), 1))
    /\ UNCHANGED <<session, sessionCmds, worktrees, gitignore, branches, files, texts, buffers>>

\* a failing delete-buffer ends the launch
DeliverDeleteBuffer_Fatal(p) ==
    LET s == proc[p] IN
    /\ s.pc = "delete_buffer"
    /\ buffers' = buffers \ {BufName(s.id)}
    /\ IF BufName(s.id) \in buffers
       THEN Upd(p, [Log(s, "tmux:delete-buffer") EXCEPT !.pc = "enter"])
       ELSE Upd(p, ExitWith(Log(s, "tmux:delete-buffer:fail"), 1))
    /\ UNCHANGED <<session, sessionCmds, windows, worktrees, gitignore, branches, files, texts>>

\* launchAgent: execQuiet(tmux delete-buffer -b <bufName>), failure ignored
DeliverDeleteBuffer(p) ==
    LET s == proc[p] IN
    /\ s.pc = "delete_buffer"
    /\ buffers' = buffers \ {BufName(s.id)}
    /\ Upd(p, [Log(s, IF BufName(s.id) \in buffers
                      THEN "tmux:delete-buffer"
                      ELSE "tmux:delete-buffer:fail") EXCEPT !.pc = "enter"])
    /\ UNCHANGED <<session, sessionCmds, windows, worktrees, gitignore, branches, files, texts>>

\* launchAgent: tmux send-keys -t dispatch:<id> Enter
DeliverEnter(p) ==
    LET s == proc[p] IN
    /\ s.pc = "enter"
    /\ IF tmuxTarget(s.id) # 0
       THEN /\ windows' = SendKeys(s.id, "Enter")
            /\ Upd(p, [Log(s, "send:Enter") EXCEPT
                          !.pc = "launch_done", !.outcome = "launched"])
       ELSE /\ UNCHANGED windows
            /\ Upd(p, ExitWith(Log(s, "tmux:send-keys:fail"), 1))
    /\ UNCHANGED <<session, sessionCmds, worktrees, gitignore, branches, files, texts, buffers>>

\* cmdRun: launchAgent has returned; the loop takes the next input, or the
\* command ends (attaching when there was a single interactive agent)
LaunchReturn(p) ==
    LET s == proc[p]
        s1 == [s EXCEPT !.batch = Append(@, [id |-> s.id,
                                             outcome |-> s.outcome,
                                             wtAdded |-> s.wtAdded,
                                             created |-> s.created])] IN
    /\ s.pc = "launch_done"
    /\ IF s.idx < Len(s.inputs)
       THEN Upd(p, [s1 EXCEPT !.pc = "resolve", !.idx = @ + 1])
       ELSE \E e \in AttachEnvs :
               Upd(p, Attaching(ExitWith(s1, 0),
                                ~s.headless /\ Len(s.inputs) = 1
                                   /\ ~s.noAttach, NoArg, e))
    /\ UNCHANGED <<session, sessionCmds, windows, worktrees, gitignore, branches, files, texts, buffers>>

(***************************************************************************)
(* dispatch stop                                                           *)
(***************************************************************************)
\* where cmdStop returns to: cmdCleanup goes on with removeWorktree
AfterStop(s) ==
    IF s.cmd = "cleanup" THEN [s EXCEPT !.pc = "rm_exists"]
    ELSE ExitWith(s, 0)

StartStop(p, ids) ==
    /\ CanStart(p)
    /\ \E id \in ids :
          LET s == [IdleProc EXCEPT !.pc = "stop_check", !.cmd = "stop",
                       !.ncmds = proc[p].ncmds + 1, !.id = id]
          IN  Upd(p, IF id = NoArg THEN Usage(s) ELSE s)
    /\ UNCHANGED <<session, sessionCmds, windows, worktrees, gitignore, branches, files, texts, buffers>>

\* the guard left out: stop goes on to the interrupt whatever it found
StopCheck_NoGuard(p) ==
    LET s == proc[p] IN
    /\ s.pc = "stop_check"
    /\ Upd(p, [Log(s, IF windowExists(s.id) THEN "stop:exists"
                      ELSE "stop:not-running") EXCEPT !.pc = "stop_ctrlc"])
    /\ UNCHANGED <<session, sessionCmds, windows, worktrees, gitignore, branches, files, texts, buffers>>

\* cmdStop: the windowExists guard
StopCheck(p) ==
    LET s == proc[p] IN
    /\ s.pc = "stop_check"
    /\ IF windowExists(s.id)
       THEN Upd(p, [Log(s, "stop:exists") EXCEPT !.pc = "stop_ctrlc"])
       ELSE Upd(p, AfterStop(Log(s, "stop:not-running")))
    /\ UNCHANGED <<session, sessionCmds, windows, worktrees, gitignore, branches, files, texts, buffers>>

\* cmdStop: tmuxSendKeys(id, "C-c"), then sleep 1
StopInterrupt(p) ==
    LET s == proc[p] IN
    /\ s.pc = "stop_ctrlc"
    /\ IF tmuxTarget(s.id) # 0
       THEN /\ windows' = SendKeys(s.id, "C-c")
            /\ Upd(p, [Log(s, "send:C-c") EXCEPT !.pc = "stop_kill"])
       ELSE /\ UNCHANGED windows
            /\ Upd(p, ExitWith(Log(s, "tmux:send-keys:fail"), 1))
    /\ UNCHANGED <<session, sessionCmds, worktrees, gitignore, branches, files, texts, buffers>>

\* the window is killed only when nothing runs in it any more
StopKill_IfExited(p) ==
    LET s == proc[p]
        t == tmuxTarget(s.id) IN
    /\ s.pc = "stop_kill"
    /\ IF t # 0 /\ windows[t].job = 0 /\ windows[t].pane = "clear"
       THEN /\ windows' = RemoveAt(windows, t)
            /\ session' = (Len(windows) > 1)
            /\ sessionCmds' = IF Len(windows) > 1 THEN sessionCmds ELSE <<>>
            /\ \E serverStays \in BOOLEAN :
                  buffers' = IF Len(windows) > 1 \/ serverStays
                             THEN buffers ELSE {}
            /\ Upd(p, AfterStop(Log(s, "tmux:kill-window")))
       ELSE /\ UNCHANGED <<windows, session, sessionCmds, buffers>>
            /\ Upd(p, AfterStop(Log(s, "tmux:kill-window:fail")))
    /\ UNCHANGED <<worktrees, gitignore, branches, files, texts>>

\* cmdStop: tmuxKillWindow(id), quiet; killing the last window ends the
\* session, and with it the buffers of a server that hosts nothing else
StopKill(p) ==
    LET s == proc[p]
        t == tmuxTarget(s.id) IN
    /\ s.pc = "stop_kill"
    /\ IF t # 0
       THEN /\ windows' = RemoveAt(windows, t)
            /\ session' = (Len(windows) > 1)
            /\ sessionCmds' = IF Len(windows) > 1 THEN sessionCmds ELSE <<>>
            /\ \E serverStays \in BOOLEAN :
                  buffers' = IF Len(windows) > 1 \/ serverStays
                             THEN buffers ELSE {}
            /\ Upd(p, AfterStop(Log(s, "tmux:kill-window")))
       ELSE /\ UNCHANGED <<windows, session, sessionCmds, buffers>>
            /\ Upd(p, AfterStop(Log(s, "tmux:kill-window:fail")))
    /\ UNCHANGED <<worktrees, gitignore, branches, files, texts>>

(***************************************************************************)
(* dispatch resume                                                         *)
(***************************************************************************)
StartResume(p, ids) ==
    /\ CanStart(p)
    /\ \E id \in ids, h \in BOOLEAN, na \in BOOLEAN :
          LET s == [IdleProc EXCEPT !.pc = "resume_wt", !.cmd = "resume",
                       !.ncmds = proc[p].ncmds + 1, !.id = id,
                       !.headless = h, !.noAttach = na,
                       !.wtPath = worktreePath(id)]
          IN  Upd(p, IF id = NoArg THEN Usage(s) ELSE s)
    /\ UNCHANGED <<session, sessionCmds, windows, worktrees, gitignore, branches, files, texts, buffers>>

\* cmdResume: the worktree must exist
ResumeWorktree(p) ==
    LET s == proc[p] IN
    /\ s.pc = "resume_wt"
    /\ IF s.id \in worktrees
       THEN Upd(p, [Log(s, "wt:exists") EXCEPT !.pc = "resume_check"])
       ELSE Upd(p, ExitWith(Log(s, "wt:missing"), 1))
    /\ UNCHANGED <<session, sessionCmds, windows, worktrees, gitignore, branches, files, texts, buffers>>

\* the guard left out: resume goes on to createWindow whatever it found
ResumeCheck_NoGuard(p) ==
    LET s == proc[p] IN
    /\ s.pc = "resume_check"
    /\ Upd(p, [Log(s, IF windowExists(s.id) THEN "check:exists"
                      ELSE "check:free") EXCEPT !.pc = "cw_exists"])
    /\ UNCHANGED <<session, sessionCmds, windows, worktrees, gitignore, branches, files, texts, buffers>>

\* cmdResume: an existing window is attached to instead of being recreated
ResumeCheck(p) ==
    LET s == proc[p] IN
    /\ s.pc = "resume_check"
    /\ IF windowExists(s.id)
       THEN \E e \in AttachEnvs :
               Upd(p, Attaching(ExitWith(Log(s, "check:exists"), 0),
                                TRUE, NoArg, e))
       ELSE Upd(p, [Log(s, "check:free") EXCEPT !.pc = "cw_exists"])
    /\ UNCHANGED <<session, sessionCmds, windows, worktrees, gitignore, branches, files, texts, buffers>>

\* cmdResume: the claude command typed into the window: interactive,
\* `claude --continue ${modelFlag}`; headless, buildClaudeCmd with the extra
\* argument --continue
ResumeCmdOf(s) ==
    IF s.headless
    THEN buildClaudeCmd(TRUE, s.wtPath, s.model, s.maxTurns, s.maxBudget,
                        "--continue")
    ELSE <<"claude", " ", "--continue", " ">>
         \o (IF s.model # "" THEN <<"--model ", s.model>> ELSE <<>>)

\* cmdResume: claude --continue is typed into the window; the headless
\* branch first writes the continue prompt through buildClaudeCmd
ResumeStart(p) ==
    LET s == proc[p] IN
    /\ s.pc = "resume_start"
    /\ IF s.headless /\ ~DirExists(s.wtPath)
       THEN /\ UNCHANGED <<windows, files, texts>>
            /\ Upd(p, ExitWith(Log(s, "write:prompt:fail"), 1))
       ELSE /\ IF s.headless
               THEN WriteFile(s.wtPath, PromptFileName, ResumePrompt)
               ELSE UNCHANGED <<files, texts>>
            /\ IF tmuxTarget(s.id) # 0
               THEN /\ windows' = SendKeys(s.id,
                                      IF s.headless THEN "resume:headless"
                                      ELSE "resume:interactive")
                    /\ \E e \in AttachEnvs :
                          Upd(p, Attaching(
                                    [ExitWith(Log(s, "send:launch"), 0) EXCEPT
                                        !.typed = ResumeCmdOf(s)],
                                    ~s.headless /\ ~s.noAttach, NoArg, e))
               ELSE /\ UNCHANGED windows
                    /\ Upd(p, ExitWith(Log(s, "tmux:send-keys:fail"), 1))
    /\ UNCHANGED <<session, sessionCmds, worktrees, gitignore, branches, buffers>>

(***************************************************************************)
(* dispatch cleanup <id> [--delete-branch]                                 *)
(***************************************************************************)
StartCleanup(p, ids) ==
    /\ CanStart(p)
    /\ \E id \in ids, db \in BOOLEAN :
          LET s == [IdleProc EXCEPT !.pc = "cleanup_check", !.cmd = "cleanup",
                       !.ncmds = proc[p].ncmds + 1, !.id = id,
                       !.deleteBranch = db]
          IN  Upd(p, IF id = NoArg THEN Usage(s) ELSE s)
    /\ UNCHANGED <<session, sessionCmds, windows, worktrees, gitignore, branches, files, texts, buffers>>

\* the orders in which readdirSync may list the directories of S
Orders(S) ==
    {q \in [1 .. Cardinality(S) -> S] :
        \A i, j \in DOMAIN q : i # j => q[i] # q[j]}

\* dispatch cleanup --all [--delete-branch]: the directories found under
\* the worktree root, taken one after the other
StartCleanupAll(p) ==
    /\ CanStart(p)
    /\ \E db \in BOOLEAN, q \in Orders(worktrees) :
          LET s == [IdleProc EXCEPT !.cmd = "cleanup", !.all = TRUE,
                       !.ncmds = proc[p].ncmds + 1, !.deleteBranch = db,
                       !.entries = q]
          IN  Upd(p, IF q = <<>> THEN ExitWith(Log(s, "cleanup:none"), 0)
                     ELSE [s EXCEPT !.pc = "cleanup_check", !.id = Head(q),
                                    !.todo = Tail(q)])
    /\ UNCHANGED <<session, sessionCmds, windows, worktrees, gitignore, branches, files, texts, buffers>>

\* the worktree removed without a look at the window
CleanupCheck_NoStop(p) ==
    LET s == proc[p] IN
    /\ s.pc = "cleanup_check"
    /\ Upd(p, [s EXCEPT !.pc = "rm_exists"])
    /\ UNCHANGED <<session, sessionCmds, windows, worktrees, gitignore, branches, files, texts, buffers>>

\* cmdCleanup: if (windowExists(id)) cmdStop([id])
CleanupCheck(p) ==
    LET s == proc[p] IN
    /\ s.pc = "cleanup_check"
    /\ Upd(p, [s EXCEPT !.pc = IF windowExists(s.id) THEN "stop_check"
                                ELSE "rm_exists"])
    /\ UNCHANGED <<session, sessionCmds, windows, worktrees, gitignore, branches, files, texts, buffers>>

\* cmdCleanup: one name is done; --all takes the next directory, and the
\* command returns after the last
CleanupDone(s) ==
    LET s1 == [s EXCEPT !.batch = Append(@, [id |-> s.id,
                                             rmResult |-> s.rmResult])] IN
    IF s.todo # <<>>
    THEN [s1 EXCEPT !.pc = "cleanup_check", !.id = Head(s.todo),
                    !.todo = Tail(s.todo)]
    ELSE ExitWith(s1, 0)

\* where removeWorktree returns to
AfterRemove(s) ==
    IF s.deleteBranch THEN [s EXCEPT !.pc = "branch_delete"]
    ELSE CleanupDone(s)

\* removeWorktree: a missing path is already clean
RemoveWorktreeExists(p) ==
    LET s == proc[p] IN
    /\ s.pc = "rm_exists"
    /\ IF s.id \in worktrees
       THEN Upd(p, [Log(s, "wt:exists") EXCEPT !.pc = "rm_remove"])
       ELSE Upd(p, AfterRemove([Log(s, "wt:missing") EXCEPT
                                   !.rmResult = TRUE]))
    /\ UNCHANGED <<session, sessionCmds, windows, worktrees, gitignore, branches, files, texts, buffers>>

\* removeWorktree: git worktree remove --force <wtPath>
RemoveWorktreeForce(p) ==
    LET s == proc[p] IN
    /\ s.pc = "rm_remove"
    /\ \E gitOk \in BOOLEAN :
          IF gitOk /\ s.id \in worktrees
          THEN /\ worktrees' = worktrees \ {s.id}
               /\ files' = {f \in files : f[1] # worktreePath(s.id)}
               /\ texts' = [f \in files' |-> texts[f]]
               /\ Upd(p, [Log(s, "git:remove:ok") EXCEPT !.pc = "rm_prune"])
          ELSE /\ UNCHANGED <<worktrees, files, texts>>
               /\ Upd(p, AfterRemove([Log(s, "git:remove:fail") EXCEPT
                                         !.rmResult = FALSE]))
    /\ UNCHANGED <<session, sessionCmds, windows, gitignore, branches, buffers>>

\* the result of removeWorktree follows the outcome of the prune
RemoveWorktreePrune_Fatal(p) ==
    LET s == proc[p] IN
    /\ s.pc = "rm_prune"
    /\ \E pruneOk \in BOOLEAN :
          Upd(p, AfterRemove([Log(s, IF pruneOk THEN "git:prune:ok"
                                     ELSE "git:prune:fail") EXCEPT
                                 !.rmResult = pruneOk]))
    /\ UNCHANGED <<session, sessionCmds, windows, worktrees, gitignore, branches, files, texts, buffers>>

\* removeWorktree: execQuiet("git worktree prune"), its failure is ignored
RemoveWorktreePrune(p) ==
    LET s == proc[p] IN
    /\ s.pc = "rm_prune"
    /\ \E pruneOk \in BOOLEAN :
          Upd(p, AfterRemove([Log(s, IF pruneOk THEN "git:prune:ok"
                                     ELSE "git:prune:fail") EXCEPT
                                 !.rmResult = TRUE]))
    /\ UNCHANGED <<session, sessionCmds, windows, worktrees, gitignore, branches, files, texts, buffers>>

\* cmdCleanup --delete-branch: git branch -D <id>; git refuses a branch
\* that is missing or still checked out in a worktree
CleanupDeleteBranch(p) ==
    LET s == proc[p] IN
    /\ s.pc = "branch_delete"
    /\ IF s.id \in branches /\ s.id \notin worktrees
       THEN /\ branches' = branches \ {s.id}
            /\ Upd(p, CleanupDone(Log(s, "git:branch-D:ok")))
       ELSE /\ UNCHANGED branches
            /\ Upd(p, CleanupDone(Log(s, "git:branch-D:fail")))
    /\ UNCHANGED <<session, sessionCmds, windows, worktrees, gitignore, files, texts, buffers>>

(***************************************************************************)
(* The processes in the windows                                            *)
(***************************************************************************)
\* the shell of an agent window echoes the typed claude command line
ShellEchoes(i) ==
    /\ session
    /\ i \in DOMAIN windows
    /\ windows[i].pane = "clear"
    /\ \E k \in DOMAIN windows[i].keys :
          windows[i].keys[k] \in {"launch:interactive", "resume:interactive"}
    /\ windows' = [windows EXCEPT ![i].pane = "cmdline"]
    /\ UNCHANGED <<session, sessionCmds, worktrees, gitignore, branches, files, texts, buffers, proc>>

\* the interactive claude started in a window draws its banner
ClaudeBanner(i) ==
    /\ session
    /\ i \in DOMAIN windows
    /\ windows[i].pane = "cmdline"
    /\ windows' = [windows EXCEPT ![i].pane = "banner"]
    /\ UNCHANGED <<session, sessionCmds, worktrees, gitignore, branches, files, texts, buffers, proc>>

\* the notification chained with && : it needs the task to succeed
HeadlessLine_AndChain ==
    <<[run |-> "unset", then |-> "&&"],
      [run |-> "task", then |-> "&&"],
      [run |-> "_notify-done", then |-> "."]>>

\* the command line typed for a headless agent:
\* unset CLAUDECODE && <claudeCmd> 2>&1 | tee -a <log>; dispatch _notify-done <id>
HeadlessLine ==
    <<[run |-> "unset", then |-> "&&"],
      [run |-> "task", then |-> ";"],
      [run |-> "_notify-done", then |-> "."]>>

\* the keys that type a headless command line
HeadlessKeys == {"launch:headless", "resume:headless"}

HeadlessTyped(w) ==
    Cardinality({k \in DOMAIN w.keys : w.keys[k] \in HeadlessKeys})

\* the exit codes a command of the line can end with
ExitCodes(run) == IF run = "task" THEN {0, 1} ELSE {0}

\* the shell's next command after command k ended with `code`: a failure
\* before && skips to the command after the next ; (0: back at the prompt)
NextJob(k, code) ==
    LET line == HeadlessLine
        after == IF line[k].then = ";" \/ code = 0
                 THEN {k + 1}
                 ELSE {j \in (k + 2) .. Len(line) : line[j - 1].then = ";"}
        left == {j \in after : j <= Len(line)} IN
    IF left = {} THEN 0
    ELSE CHOOSE j \in left : \A m \in left : j <= m

\* what claude -p --output-format json prints when it ends
ClaudeOutput == <<"{result}", NL>>

\* the log that tee -a opened is truncated first (tee without -a)
TeeOpens_Truncating(dir) ==
    IF DirExists(dir)
    THEN /\ files' = files \cup {<<dir, LogFileName>>}
         /\ texts' = [f \in files' |->
                           IF f \in files /\ f # <<dir, LogFileName>>
                           THEN texts[f] ELSE <<>>]
    ELSE UNCHANGED <<files, texts>>

\* tee -a <wtPath>/.dispatch.log starts: the log is created when missing
\* and left as it is otherwise
TeeOpens(dir) ==
    IF DirExists(dir)
    THEN /\ files' = files \cup {<<dir, LogFileName>>}
         /\ texts' = [f \in files' |->
                           IF f \in files THEN texts[f] ELSE <<>>]
    ELSE UNCHANGED <<files, texts>>

\* tee -a appends what the task printed to the log it opened
TeeAppends(dir, text) ==
    /\ UNCHANGED files
    /\ texts' = IF <<dir, LogFileName>> \in files
                  THEN [texts EXCEPT ![<<dir, LogFileName>>] = @ \o text]
                  ELSE texts

\* the shell of a window takes the next typed headless command line; its
\* first command, the builtin unset, is done at once
ShellStartsLine(i) ==
    /\ session
    /\ i \in DOMAIN windows
    /\ windows[i].job = 0
    /\ windows[i].ran < HeadlessTyped(windows[i])
    /\ \E code \in ExitCodes(HeadlessLine[1].run) :
          windows' = [windows EXCEPT ![i].job = NextJob(1, code),
                                     ![i].ran = @ + 1]
    /\ TeeOpens(windows[i].cwd)
    /\ UNCHANGED <<session, sessionCmds, worktrees, gitignore, branches, buffers, proc>>

\* the running command of the line ends; the task's code is its own, and
\* `dispatch _notify-done <id>` is cmdNotifyDone
JobEnds(i) ==
    /\ session
    /\ i \in DOMAIN windows
    /\ windows[i].job > 0
    /\ LET run == HeadlessLine[windows[i].job].run IN
       \E code \in ExitCodes(run) :
          windows' = [windows EXCEPT
             ![i].job = NextJob(windows[i].job, code),
             ![i].tasksEnded = IF run = "task" THEN @ + 1 ELSE @,
             ![i].taskExit = IF run = "task" THEN code ELSE @,
             ![i].notified = IF run = "_notify-done" THEN @ + 1 ELSE @]
    /\ IF HeadlessLine[windows[i].job].run = "task"
       THEN TeeAppends(windows[i].cwd, ClaudeOutput)
       ELSE UNCHANGED <<files, texts>>
    /\ UNCHANGED <<session, sessionCmds, worktrees, gitignore, branches, buffers, proc>>

\* Ctrl-C typed by `dispatch stop`: the interactive shell abandons the
\* rest of the line it was running
JobInterrupted(i) ==
    /\ session
    /\ i \in DOMAIN windows
    /\ windows[i].job > 0
    /\ windows[i].keys # <<>>
    /\ windows[i].keys[Len(windows[i].keys)] = "C-c"
    /\ windows' = [windows EXCEPT ![i].job = 0]
    /\ UNCHANGED <<session, sessionCmds, worktrees, gitignore, branches, files, texts, buffers, proc>>

(***************************************************************************)
(* dispatch list                                                           *)
(***************************************************************************)
\* #{pane_current_command} of a window: claude (a node program) once it was
\* started, the shell otherwise
FgCommands(w) ==
    IF \/ w.pane \in {"cmdline", "banner"}
       \/ (w.job > 0 /\ HeadlessLine[w.job].run = "task")
    THEN {"claude", "node"}
    ELSE {"zsh"}

\* #{pane_dead}: 1 for a pane kept after its process exited
DeadFlags == {"0", "1"}

\* one line of tmuxListWindows:
\* #{window_name}|#{pane_current_command}|#{pane_current_path}|#{pane_dead}
ListLine(w, cmd, dead) ==
    w.name \o <<"|">> \o <<cmd>> \o <<"|">> \o JoinPath(w.cwd)
           \o <<"|">> \o <<dead>>

\* line.split("|")
RECURSIVE SplitBar(_)
SplitBar(line) ==
    IF \A k \in DOMAIN line : line[k] # "|" THEN <<line>>
    ELSE LET k == CHOOSE k \in DOMAIN line :
                     /\ line[k] = "|"
                     /\ \A j \in 1 .. (k - 1) : line[j] # "|"
         IN  <<SubSeq(line, 1, k - 1)>>
                \o SplitBar(SubSeq(line, k + 1, Len(line)))

\* a dead pane reported by the command it last ran
statusText_CommandFirst(cmd, dead) ==
    IF cmd = <<"claude">> \/ cmd = <<"node">> THEN "running"
    ELSE IF dead = <<"1">> THEN "exited"
    ELSE "idle"

\* cmdList: the status of an entry
statusText(cmd, dead) ==
    IF dead = <<"1">> THEN "exited"
    ELSE IF cmd = <<"claude">> \/ cmd = <<"node">> THEN "running"
    ELSE "idle"

\* root && path.startsWith(root + "/") ? path.slice(root.length + 1) : path
shortPath(path) ==
    IF Len(path) >= 2 /\ SubSeq(path, 1, 2) = GitRoot \o <<"/">>
    THEN SubSeq(path, 3, Len(path))
    ELSE path

\* cmdList: the entry printed for a line (name, cmd, path, dead are the
\* first four fields of the split; a missing one is undefined)
ListEntry(line) ==
    LET f == SplitBar(line)
        at(k) == IF k <= Len(f) THEN f[k] ELSE <<"undefined">> IN
    [name |-> at(1), cmd |-> at(2), dead |-> at(4),
     status |-> statusText(at(2), at(4)), path |-> shortPath(at(3))]

\* cmdList: the entries of the lines whose name is not the control window's
RECURSIVE ListEntries(_)
ListEntries(lines) ==
    IF lines = <<>> THEN <<>>
    ELSE LET e == ListEntry(Head(lines)) IN
         (IF e.name = Str_dispatch THEN <<>> ELSE <<e>>)
            \o ListEntries(Tail(lines))

StartList(p) ==
    /\ CanStart(p)
    /\ Upd(p, [IdleProc EXCEPT !.pc = "list", !.cmd = "list",
                  !.ncmds = proc[p].ncmds + 1])
    /\ UNCHANGED <<session, sessionCmds, windows, worktrees, gitignore, branches, files, texts, buffers>>

\* a missing session reported as a failure of the listing
CmdList_NoSessionIsError(p) ==
    LET s == proc[p] IN
    /\ s.pc = "list"
    /\ IF ~session
       THEN Upd(p, ExitWith(Log(s, "list:no-session"), 1))
       ELSE \E view \in [DOMAIN windows ->
                            {"zsh", "claude", "node"} \X DeadFlags] :
               /\ \A i \in DOMAIN windows :
                     view[i][1] \in FgCommands(windows[i])
               /\ Upd(p, [ExitWith(Log(s, "list:windows"), 0) EXCEPT
                     !.report = ListEntries(
                        [i \in DOMAIN windows |->
                            ListLine(windows[i], view[i][1], view[i][2])])])
    /\ UNCHANGED <<session, sessionCmds, windows, worktrees, gitignore, branches, files, texts, buffers>>

\* cmdList: without a session there is nothing to list; otherwise the
\* windows are read once and printed
CmdList(p) ==
    LET s == proc[p] IN
    /\ s.pc = "list"
    /\ IF ~tmuxHasSession
       THEN Upd(p, ExitWith(Log(s, "list:no-session"), 0))
       ELSE \E view \in [DOMAIN windows ->
                            {"zsh", "claude", "node"} \X DeadFlags] :
               /\ \A i \in DOMAIN windows :
                     view[i][1] \in FgCommands(windows[i])
               /\ Upd(p, [ExitWith(Log(s, "list:windows"), 0) EXCEPT
                     !.report = ListEntries(
                        [i \in DOMAIN windows |->
                            ListLine(windows[i], view[i][1], view[i][2])])])
    /\ UNCHANGED <<session, sessionCmds, windows, worktrees, gitignore, branches, files, texts, buffers>>

(***************************************************************************)
(* dispatch logs <id>, and the commands that touch nothing                 *)
(***************************************************************************)
StartLogs(p, ids) ==
    /\ CanStart(p)
    /\ \E id \in ids :
          LET s == [IdleProc EXCEPT !.pc = "logs", !.cmd = "logs",
                       !.ncmds = proc[p].ncmds + 1, !.id = id,
                       !.wtPath = worktreePath(id)]
          IN  Upd(p, IF id = NoArg THEN Usage(s) ELSE s)
    /\ UNCHANGED <<session, sessionCmds, windows, worktrees, gitignore, branches,
                   files, texts, buffers>>

\* an agent without log and without window is reported and forgiven
CmdLogs_MissingIsQuiet(p) ==
    LET s == proc[p] IN
    /\ s.pc = "logs"
    /\ Upd(p, IF <<s.wtPath, LogFileName>> \in files
              THEN ExitWith(Log(s, "logs:tail"), 0)
              ELSE IF windowExists(s.id)
              THEN ExitWith(Log(s, "logs:capture"), 0)
              ELSE ExitWith(Log(s, "logs:not-found"), 0))
    /\ UNCHANGED <<session, sessionCmds, windows, worktrees, gitignore, branches,
                   files, texts, buffers>>

\* cmdLogs: the log of the worktree is tailed until the tail ends or the
\* operator interrupts it (both exit 0); without a log the pane of the
\* window is printed; without a window the agent is not found
CmdLogs(p) ==
    LET s == proc[p] IN
    /\ s.pc = "logs"
    /\ Upd(p, IF <<s.wtPath, LogFileName>> \in files
              THEN ExitWith(Log(s, "logs:tail"), 0)
              ELSE IF windowExists(s.id)
              THEN ExitWith(Log(s, "logs:capture"), 0)
              ELSE ExitWith(Log(s, "logs:not-found"), 1))
    /\ UNCHANGED <<session, sessionCmds, windows, worktrees, gitignore, branches,
                   files, texts, buffers>>

\* dispatch attach [window]
StartAttach(p, ids) ==
    /\ CanStart(p)
    /\ \E id \in ids :
          Upd(p, [IdleProc EXCEPT !.pc = "attach", !.cmd = "attach",
                     !.ncmds = proc[p].ncmds + 1, !.id = id])
    /\ UNCHANGED <<session, sessionCmds, windows, worktrees, gitignore, branches,
                   files, texts, buffers>>

\* cmdAttach: without a session it is an error; otherwise tmuxAttach on the
\* window given, or on the session
CmdAttach(p) ==
    LET s == proc[p] IN
    /\ s.pc = "attach"
    /\ IF ~tmuxHasSession
       THEN Upd(p, ExitWith(Log(s, "attach:no-session"), 1))
       ELSE \E e \in AttachEnvs :
               Upd(p, Attaching(ExitWith(Log(s, "attach"), 0), TRUE, s.id, e))
    /\ UNCHANGED <<session, sessionCmds, windows, worktrees, gitignore, branches,
                   files, texts, buffers>>

\* main: version and help print and return; any other word is unknown
OtherCommands == {"version", "help", "frobnicate"}

MainOther(p) ==
    /\ CanStart(p)
    /\ \E c \in OtherCommands :
          LET s == [IdleProc EXCEPT !.cmd = "other",
                       !.ncmds = proc[p].ncmds + 1]
          IN  Upd(p, IF c \in {"version", "help"}
                     THEN ExitWith(Log(s, c), 0)
                     ELSE ExitWith(Log(s, "unknown-command"), 1))
    /\ UNCHANGED <<session, sessionCmds, windows, worktrees, gitignore, branches,
                   files, texts, buffers>>

(***************************************************************************)
(* Configuration: parseSimpleYaml and loadConfig                           *)
(***************************************************************************)
\* The text of a configuration file, a value and a key are sequences of
\* pieces: the newline, the space, ":", "#", the two quotes, or a stretch
\* of characters with none of these.
ConfigKeys ==
    {"baseBranch", "model", "maxTurns", "maxBudget", "allowedTools",
     "worktreeDir", "claudeTimeout"}

\* a JavaScript number: an integer, or NaN
Num(n) == [isNaN |-> FALSE, n |-> n]
NaN == [isNaN |-> TRUE, n |-> 0]

\* DEFAULTS
DEFAULTS ==
    [k \in ConfigKeys |->
        CASE k = "baseBranch" -> <<"dev">>
          [] k = "allowedTools" -> <<AllowedTools>>
          [] k = "worktreeDir" -> <<".worktrees">>
          [] k = "claudeTimeout" -> Num(30)
          [] OTHER -> <<>>]

\* KEY_MAP: the key of the file -> the key of the configuration
KEY_MAP ==
    [y \in {<<"base_branch">>, <<"model">>, <<"max_turns">>, <<"max_budget">>,
            <<"allowed_tools">>, <<"worktree_dir">>, <<"claude_timeout">>} |->
        CASE y = <<"base_branch">> -> "baseBranch"
          [] y = <<"model">> -> "model"
          [] y = <<"max_turns">> -> "maxTurns"
          [] y = <<"max_budget">> -> "maxBudget"
          [] y = <<"allowed_tools">> -> "allowedTools"
          [] y = <<"worktree_dir">> -> "worktreeDir"
          [] OTHER -> "claudeTimeout"]

\* envMap of loadConfig, in its order
envMap ==
    << <<"DISPATCH_BASE_BRANCH", "baseBranch">>,
       <<"DISPATCH_MODEL", "model">>,
       <<"DISPATCH_MAX_TURNS", "maxTurns">>,
       <<"DISPATCH_MAX_BUDGET", "maxBudget">>,
       <<"DISPATCH_ALLOWED_TOOLS", "allowedTools">>,
       <<"DISPATCH_CLAUDE_TIMEOUT", "claudeTimeout">> >>

\* String.prototype.trim, for the spaces
RECURSIVE TrimEnd(_)
TrimEnd(s) ==
    IF s # <<>> /\ s[Len(s)] = " " THEN TrimEnd(SubSeq(s, 1, Len(s) - 1))
    ELSE s

Trim(s) == TrimEnd(StripSpaces(s))

\* the decimal value of a string of digits
RECURSIVE Decimal(_)
Decimal(v) ==
    IF v = <<>> THEN 0
    ELSE 10 * Decimal(SubSeq(v, 1, Len(v) - 1))
         + ((CHOOSE i \in DOMAIN DigitChars : DigitChars[i] = v[Len(v)]) - 1)

\* Number(value) for the values of the modelled runs: 0 for the empty
\* string, the value of a string of decimal digits, NaN for a word
Number(v) ==
    IF \A i \in DOMAIN v : IsDigit(v[i]) THEN Num(Decimal(v)) ELSE NaN

\* the value stored under a configuration key
Coerce(key, value) == IF key = "claudeTimeout" THEN Number(value) ELSE value

\* parseSimpleYaml: the value of one line, after the first ":"; a pair of
\* surrounding quotes of one kind is stripped
YamlValue(trimmed, idx) ==
    LET value == Trim(SubSeq(trimmed, idx + 1, Len(trimmed))) IN
    IF value # <<>> /\ value[1] \in {"\"", "'"} /\ value[Len(value)] = value[1]
    THEN SubSeq(value, 2, Len(value) - 1)
    ELSE value

\* parseSimpleYaml: the lines taken in order, a later line replacing the
\* value an earlier one gave to the same key
RECURSIVE ParseYamlLines(_, _)
ParseYamlLines(lines, result) ==
    IF lines = <<>> THEN result
    ELSE LET trimmed == Trim(Head(lines))
             colons == {i \in DOMAIN trimmed : trimmed[i] = ":"}
             idx == CHOOSE i \in colons : \A j \in colons : i <= j
             key == Trim(SubSeq(trimmed, 1, idx - 1))
         IN  IF trimmed = <<>> \/ trimmed[1] = "#" \/ colons = {}
             THEN ParseYamlLines(Tail(lines), result)
             ELSE ParseYamlLines(Tail(lines),
                     [k \in DOMAIN result \cup {key} |->
                         IF k = key THEN YamlValue(trimmed, idx)
                         ELSE result[k]])

parseSimpleYaml(content) == ParseYamlLines(SplitLines(content), <<>>)

\* the path of the user's configuration file: join(homedir(), ".dispatch.yml")
HomeConfigPath == <<"~/.dispatch.yml">>

\* process.env[name] is a non-empty string
EnvSet(env, name) == name \in DOMAIN env /\ env[name] # <<>>

\* the environment applied before the file: a key of the file wins
loadConfig_FileOverEnv(cliOverrides, env, disk) ==
    LET configPath == IF EnvSet(env, "DISPATCH_CONFIG")
                      THEN env["DISPATCH_CONFIG"] ELSE HomeConfigPath
        readable == configPath \in DOMAIN disk /\ disk[configPath].exists
        parsed == IF readable THEN parseSimpleYaml(disk[configPath].text)
                  ELSE <<>>
        fromEnv == [k \in ConfigKeys |->
                      IF \E i \in DOMAIN envMap :
                            envMap[i][2] = k /\ EnvSet(env, envMap[i][1])
                      THEN LET i == CHOOSE i \in DOMAIN envMap :
                                       envMap[i][2] = k
                           IN  Coerce(k, env[envMap[i][1]])
                      ELSE DEFAULTS[k]]
        fromFile == [k \in ConfigKeys |->
                       IF \E y \in DOMAIN parsed :
                             y \in DOMAIN KEY_MAP /\ KEY_MAP[y] = k
                       THEN LET y == CHOOSE y \in DOMAIN parsed :
                                        y \in DOMAIN KEY_MAP /\ KEY_MAP[y] = k
                            IN  Coerce(k, parsed[y])
                       ELSE fromEnv[k]]
    IN  [k \in ConfigKeys |->
            IF k \in DOMAIN cliOverrides /\ cliOverrides[k] # <<>>
            THEN cliOverrides[k] ELSE fromFile[k]]

\* loadConfig(cliOverrides) in the environment env, with the files of disk:
\* the defaults, overwritten by the keys of the file that KEY_MAP knows,
\* then by the variables of envMap that are set, then by the overrides
\* that are neither undefined (absent here) nor ""
loadConfig(cliOverrides, env, disk) ==
    LET configPath == IF EnvSet(env, "DISPATCH_CONFIG")
                      THEN env["DISPATCH_CONFIG"] ELSE HomeConfigPath
        readable == configPath \in DOMAIN disk /\ disk[configPath].exists
        parsed == IF readable THEN parseSimpleYaml(disk[configPath].text)
                  ELSE <<>>
        fromFile == [k \in ConfigKeys |->
                       IF \E y \in DOMAIN parsed :
                             y \in DOMAIN KEY_MAP /\ KEY_MAP[y] = k
                       THEN LET y == CHOOSE y \in DOMAIN parsed :
                                        y \in DOMAIN KEY_MAP /\ KEY_MAP[y] = k
                            IN  Coerce(k, parsed[y])
                       ELSE DEFAULTS[k]]
        fromEnv == [k \in ConfigKeys |->
                      IF \E i \in DOMAIN envMap :
                            envMap[i][2] = k /\ EnvSet(env, envMap[i][1])
                      THEN LET i == CHOOSE i \in DOMAIN envMap :
                                       envMap[i][2] = k
                           IN  Coerce(k, env[envMap[i][1]])
                      ELSE fromFile[k]]
    IN  [k \in ConfigKeys |->
            IF k \in DOMAIN cliOverrides /\ cliOverrides[k] # <<>>
            THEN cliOverrides[k] ELSE fromEnv[k]]

\* main: const config = loadConfig(), here with the overrides of the call
MainLoadConfig(p) ==
    LET s == proc[p] IN
    /\ s.pc = "load_config"
    /\ Upd(p, [s EXCEPT !.pc = "main",
                  !.config = loadConfig(s.cfg.overrides, s.cfg.env,
                                        s.cfg.disk)])
    /\ UNCHANGED <<session, sessionCmds, windows, worktrees, gitignore, branches,
                   files, texts, buffers>>

(***************************************************************************)
(* Specifications                                                          *)
(***************************************************************************)
\* the steps of `dispatch run`
RunStep(p) ==
    \/ LaunchResolve(p)
    \/ LaunchCheckExisting(p)
    \/ LaunchNoWorktree(p)
    \/ CreateWorktreeExists(p)
    \/ CreateWorktreeAddNew(p)
    \/ CreateWorktreeAddExisting(p)
    \/ CreateWindowExists(p)
    \/ EnsureSessionHas(p)
    \/ EnsureSessionNew(p)
    \/ CreateWindowNew(p)
    \/ CreateWindowColour(p)
    \/ LaunchBuildCmd(p)
    \/ LaunchStart(p)
    \/ WaitForClaude(p)
    \/ DeliverWritePrompt(p)
    \/ DeliverLoadBuffer(p)
    \/ DeliverPaste(p)
    \/ DeliverDeleteBuffer(p)
    \/ DeliverEnter(p)
    \/ LaunchReturn(p)

\* the steps of `dispatch stop`, also taken by cleanup
StopStep(p) ==
    \/ StopCheck(p)
    \/ StopInterrupt(p)
    \/ StopKill(p)

\* the steps of `dispatch resume` and `dispatch cleanup`
RepairStep(p) ==
    \/ ResumeWorktree(p)
    \/ ResumeCheck(p)
    \/ ResumeStart(p)
    \/ CleanupCheck(p)
    \/ RemoveWorktreeExists(p)
    \/ RemoveWorktreeForce(p)
    \/ RemoveWorktreePrune(p)
    \/ CleanupDeleteBranch(p)
    \/ CmdList(p)

Environment ==
    \E i \in 1 .. Len(windows) :
       \/ ShellEchoes(i)
       \/ ClaudeBanner(i)
       \/ ShellStartsLine(i)
       \/ JobEnds(i)
       \/ JobInterrupted(i)

\* the flags of `dispatch run`: <<--headless, --no-worktree>>
RunFlags == BOOLEAN \X BOOLEAN

\* a launch with --name is a single interactive launch in place
NamedInputLists == {<<In_Fix>>}
NamedRunFlags == {<<FALSE, TRUE>>}

\* the invocations run one at a time: a single process, no overlap
Next ==
    \/ Budget(MaxCmds) /\ StartRun(1, InputLists, RunFlags, {NoName})
    \/ Budget(MaxCmds) /\ StartStop(1, AgentIds)
    \/ Budget(MaxCmds) /\ StartResume(1, AgentIds)
    \/ Budget(MaxCmds) /\ StartCleanup(1, AgentIds)
    \/ Budget(MaxCmds) /\ StartList(1)
    \/ RunStep(1)
    \/ StopStep(1)
    \/ RepairStep(1)
    \/ Environment

Spec == Init /\ [][Next]_vars

\* Launches, with and without --name, and listings, one at a time
ListNext ==
    \/ Budget(MaxCmds) /\ StartRun(1, InputLists, RunFlags, {NoName})
    \/ Budget(MaxCmds) /\ StartRun(1, NamedInputLists, NamedRunFlags,
                                    NameOverrides \ {NoName})
    \/ Budget(MaxCmds) /\ StartList(1)
    \/ RunStep(1)
    \/ CmdList(1)
    \/ Environment

ListSpec == Init /\ [][ListNext]_vars

\* Launches only, one at a time; a dispatch process inside the polling
\* loop of waitForClaude executes its next iteration.
LaunchNext ==
    \/ Budget(MaxCmds) /\ StartRun(1, InputLists, RunFlags, {NoName})
    \/ RunStep(1)
    \/ Environment

FairSpec == Init /\ [][LaunchNext]_vars /\ WF_vars(WaitForClaude(1))

\* Two operators launch and stop one agent at the same time: the steps of
\* their invocations interleave.  The processes are numbered in the order
\* of their first invocation.
RaceInputLists == {<<In_Fix>>}
RaceIds == {slugify(In_Fix)}
\* a racing launch is headless in a worktree, or interactive in place
RaceRunFlags == {<<TRUE, FALSE>>, <<FALSE, TRUE>>}
RaceStart(p) ==
    /\ Budget(MaxRaceCmds)
    /\ \A q \in Procs : q < p => proc[q].ncmds > 0

\* what a racing dispatch process can observe of the windows: the pane
\* content (the progress of a headless command line is never read)
RaceEnvironment ==
    \E i \in 1 .. Len(windows) : ShellEchoes(i) \/ ClaudeBanner(i)

RaceNext ==
    \/ \E p \in Procs : RaceStart(p) /\ StartRun(p, RaceInputLists, RaceRunFlags,
                                       {NoName})
    \/ \E p \in Procs : RaceStart(p) /\ StartStop(p, RaceIds)
    \/ \E p \in Procs : RunStep(p)
    \/ \E p \in Procs : StopStep(p)
    \/ RaceEnvironment

RaceSpec == Init /\ [][RaceNext]_vars

\* Two agents launched interactively and stopped, one invocation at a time:
\* windows come and go while others stay.
In_ab == <<"a", " ", "b">>
ColourInputLists == {<<In_Fix>>, <<In_ab>>, <<In_Fix, In_ab>>}
ColourRunFlags == {<<FALSE, FALSE>>, <<FALSE, TRUE>>}
ColourIds == {slugify(In_Fix), slugify(In_ab)}

ColourNext ==
    \/ Budget(MaxCmds) /\ StartRun(1, ColourInputLists, ColourRunFlags, {NoName})
    \/ Budget(MaxCmds) /\ StartStop(1, ColourIds)
    \/ RunStep(1)
    \/ StopStep(1)
    \/ RaceEnvironment

ColourSpec == Init /\ [][ColourNext]_vars

\* Launches whose prompt has quotes of both kinds and a newline
In_Quoted == <<"s", "a", "y", " ", "\"", "h", "i", "\"", NL, "'", "x", "'">>
PromptInputLists == {<<In_Quoted>>}

PromptNext ==
    \/ Budget(MaxCmds) /\ StartRun(1, PromptInputLists, RunFlags, {NoName})
    \/ RunStep(1)
    \/ Environment

PromptSpec == Init /\ [][PromptNext]_vars

\* buildClaudeCmd alone: launchAgent has made its window and calls it with
\* one mode, one configuration and one string of extra arguments.
BuildModels == {"", "opus"}
BuildMaxTurns == {"", "10"}
BuildMaxBudgets == {"", "5"}
BuildExtraArgs == {"", "--verbose", " --verbose --debug"}

BuildInit ==
    /\ session = TRUE
    /\ sessionCmds = SessionOptions
    /\ windows = << [NewWindow(DISPATCH_SESSION, GitRoot) EXCEPT
                        !.keys = <<"banner">>],
                    [NewWindow(slugify(In_Fix), GitRoot) EXCEPT
                        !.colour = TabColour(2), !.keys = <<"title">>] >>
    /\ worktrees = {}
    /\ gitignore = NoFile
    /\ branches = {}
    /\ files = {}
    /\ texts = <<>>
    /\ buffers = {}
    /\ \E h \in BOOLEAN, m \in BuildModels, mt \in BuildMaxTurns,
          mb \in BuildMaxBudgets, ea \in BuildExtraArgs,
          i \in {In_Fix, In_Quoted} :
          proc = [p \in Procs |->
                    IF p = 1
                    THEN [IdleProc EXCEPT
                             !.pc = "build", !.cmd = "run", !.ncmds = 1,
                             !.inputs = <<i>>, !.idx = 1, !.headless = h,
                             !.skipWorktree = TRUE, !.id = slugify(In_Fix),
                             !.branch = slugify(In_Fix),
                             !.prompt = <<"text", i>>,
                             !.wtPath = GitRoot, !.created = TRUE,
                             !.model = m, !.maxTurns = mt, !.maxBudget = mb,
                             !.extraArgs = ea,
                             !.trace = <<"check:free", "wt:skipped",
                                         "cw:free", "tmux:new-session",
                                         "tmux:new-window", "cw:created">>]
                    ELSE IdleProc]

BuildNext == LaunchBuildCmd(1)

BuildSpec == BuildInit /\ [][BuildNext]_vars

\* Launches from command lines that carry options cmdRun does not know
Opt_verbose == <<"-", "-", "v", "e", "r", "b", "o", "s", "e">>
Opt_debug == <<"-", "-", "d", "e", "b", "u", "g">>
Val_opus == <<"o", "p", "u", "s">>

ArgLists ==
    {<<>>,
     <<In_Fix>>,
     <<In_Fix, Opt_verbose>>,
     <<In_Fix, Opt_headless, Opt_verbose>>,
     <<Opt_debug, In_Fix, Opt_H, Opt_noWorktree, Opt_verbose>>,
     <<In_Fix, Opt_noWorktree, Opt_noAttach, Opt_m, Val_opus, Opt_verbose>>,
     <<In_Fix, In_fixBang, Opt_noWorktree, Opt_debug>>}

ForwardNext ==
    \/ Budget(MaxCmds) /\ StartRunArgs(1, ArgLists)
    \/ RunStep(1)
    \/ Environment

ForwardSpec == Init /\ [][ForwardNext]_vars

\* Every command, with and without its argument, on one agent
ExitInputLists == {<<>>, <<In_Fix>>}
ExitIds == {NoArg, slugify(In_Fix)}

ExitNext ==
    \/ Budget(MaxCmds) /\ StartRun(1, ExitInputLists, RunFlags, {NoName})
    \/ Budget(MaxCmds) /\ StartStop(1, ExitIds)
    \/ Budget(MaxCmds) /\ StartResume(1, ExitIds)
    \/ Budget(MaxCmds) /\ StartCleanup(1, ExitIds)
    \/ Budget(MaxCmds) /\ StartLogs(1, ExitIds)
    \/ Budget(MaxCmds) /\ StartList(1)
    \/ Budget(MaxCmds) /\ MainOther(1)
    \/ RunStep(1)
    \/ StopStep(1)
    \/ RepairStep(1)
    \/ CmdLogs(1)
    \/ Environment

ExitSpec == Init /\ [][ExitNext]_vars

\* Headless launches in worktrees of a repository whose .gitignore is any
\* of the files below.
GitignoreStarts ==
    {NoFile, FileOf(<<>>),
     FileOf(<<"node_modules">>), FileOf(<<"node_modules", NL>>),
     FileOf(<<".worktrees/", NL>>),
     FileOf(<<"node_modules", NL, ".worktrees/">>),
     FileOf(<<".worktrees">>), FileOf(<<"#", ".worktrees/", NL>>)}

GitignoreInit ==
    /\ session = FALSE
    /\ sessionCmds = <<>>
    /\ windows = <<>>
    /\ worktrees = {}
    /\ gitignore \in GitignoreStarts
    /\ branches = {}
    /\ files = {}
    /\ texts = <<>>
    /\ buffers = {}
    /\ proc = [p \in Procs |-> IdleProc]

\* the steps of a headless launch in a worktree
HeadlessRunStep(p) ==
    \/ LaunchResolve(p)
    \/ LaunchCheckExisting(p)
    \/ CreateWorktreeExists(p)
    \/ CreateWorktreeAddNew(p)
    \/ CreateWorktreeAddExisting(p)
    \/ CreateWindowExists(p)
    \/ EnsureSessionHas(p)
    \/ EnsureSessionNew(p)
    \/ CreateWindowNew(p)
    \/ CreateWindowColour(p)
    \/ LaunchBuildCmd(p)
    \/ LaunchStart(p)
    \/ LaunchReturn(p)

GitignoreNext ==
    \/ Budget(MaxCmds) /\ StartRun(1, ColourInputLists, {<<TRUE, FALSE>>},
                                    {NoName})
    \/ HeadlessRunStep(1)

GitignoreSpec == GitignoreInit /\ [][GitignoreNext]_vars

\* One agent launched interactively, in a worktree or in place, attached
\* to and stopped
AttachIds == {NoArg, slugify(In_Fix)}

AttachNext ==
    \/ Budget(MaxCmds) /\ StartRun(1, RaceInputLists, ColourRunFlags, {NoName})
    \/ Budget(MaxCmds) /\ StartAttach(1, AttachIds)
    \/ Budget(MaxCmds) /\ StartStop(1, RaceIds)
    \/ RunStep(1)
    \/ StopStep(1)
    \/ CmdAttach(1)
    \/ RaceEnvironment

AttachSpec == Init /\ [][AttachNext]_vars

\* Agents launched, then cleaned up one by one or all at once
CleanupStep(p) ==
    \/ CleanupCheck(p)
    \/ RemoveWorktreeExists(p)
    \/ RemoveWorktreeForce(p)
    \/ RemoveWorktreePrune(p)
    \/ CleanupDeleteBranch(p)

CleanupNext ==
    \/ Budget(MaxCmds) /\ StartRun(1, InputLists, RunFlags, {NoName})
    \/ Budget(MaxCmds) /\ StartCleanup(1, AgentIds)
    \/ Budget(MaxCmds) /\ StartCleanupAll(1)
    \/ RunStep(1)
    \/ StopStep(1)
    \/ CleanupStep(1)
    \/ Environment

CleanupSpec == Init /\ [][CleanupNext]_vars

\* loadConfig alone: one call with its overrides, in one environment,
\* with one user file and one file named by DISPATCH_CONFIG.
OtherConfigPath == <<"/etc/dispatch.yml">>

File_All ==
    <<"base_branch", ":", " ", "main", NL,
      "model", ":", " ", "\"", "sonnet", "\"", NL,
      "max_turns", ":", " ", "5", NL,
      "max_budget", ":", " ", "'", "2", "'", NL,
      "allowed_tools", ":", " ", "Read", NL,
      "worktree_dir", ":", " ", "wt", NL,
      "claude_timeout", ":", " ", "4", "5", NL>>

\* comments, blank lines, spaces, a key given twice, a key without value,
\* a line without colon, an unknown key, a value with a colon, a timeout
\* that is no number, a value that is one quote
File_Quirks ==
    <<"#", " ", "model", ":", " ", "x", NL,
      NL,
      " ", " ", "model", " ", " ", ":", " ", " ", "opus", " ", NL,
      "model", ":", "haiku", NL,
      "base_branch", ":", NL,
      "no-colon-here", NL,
      "unknown", ":", " ", "v", NL,
      "max_budget", ":", " ", "1", ":", "2", NL,
      "claude_timeout", ":", " ", "abc", NL,
      "worktree_dir", ":", " ", "\"">>

ConfigFiles == {NoFile, FileOf(<<>>), FileOf(File_All), FileOf(File_Quirks)}

ConfigDisks ==
    {(HomeConfigPath :> h) @@ (OtherConfigPath :> o) :
        h \in ConfigFiles, o \in {NoFile, FileOf(File_All)}}

ConfigEnvs ==
    {<<>>,
     ("DISPATCH_BASE_BRANCH" :> <<"e-base">>) @@ ("DISPATCH_MODEL" :> <<"e-model">>)
        @@ ("DISPATCH_MAX_TURNS" :> <<"7">>) @@ ("DISPATCH_MAX_BUDGET" :> <<"3">>)
        @@ ("DISPATCH_ALLOWED_TOOLS" :> <<"Bash">>)
        @@ ("DISPATCH_WORKTREE_DIR" :> <<"e-wt">>)
        @@ ("DISPATCH_CLAUDE_TIMEOUT" :> <<"5", "0">>),
     ("DISPATCH_BASE_BRANCH" :> <<>>) @@ ("DISPATCH_MODEL" :> <<>>)
        @@ ("DISPATCH_MAX_TURNS" :> <<>>) @@ ("DISPATCH_MAX_BUDGET" :> <<>>)
        @@ ("DISPATCH_ALLOWED_TOOLS" :> <<>>)
        @@ ("DISPATCH_WORKTREE_DIR" :> <<>>)
        @@ ("DISPATCH_CLAUDE_TIMEOUT" :> <<>>) @@ ("DISPATCH_CONFIG" :> <<>>),
     ("DISPATCH_CONFIG" :> OtherConfigPath) @@ ("DISPATCH_MODEL" :> <<"e-model">>),
     ("DISPATCH_CONFIG" :> <<"/nonexistent/.dispatch.yml">>)
        @@ ("DISPATCH_CLAUDE_TIMEOUT" :> <<"soon">>)}

ConfigOverrides ==
    {<<>>,
     ("model" :> <<"opus">>) @@ ("baseBranch" :> <<"main">>),
     ("claudeTimeout" :> Num(60)),
     ("baseBranch" :> <<"o-base">>) @@ ("model" :> <<"o-model">>)
        @@ ("maxTurns" :> <<"9">>) @@ ("maxBudget" :> <<"4">>)
        @@ ("allowedTools" :> <<"Edit">>) @@ ("worktreeDir" :> <<"o-wt">>)
        @@ ("claudeTimeout" :> Num(0)),
     ("baseBranch" :> <<>>) @@ ("model" :> <<>>) @@ ("maxTurns" :> <<>>)
        @@ ("maxBudget" :> <<>>) @@ ("allowedTools" :> <<>>)
        @@ ("worktreeDir" :> <<>>)}

ConfigInit ==
    /\ session = FALSE
    /\ sessionCmds = <<>>
    /\ windows = <<>>
    /\ worktrees = {}
    /\ gitignore = NoFile
    /\ branches = {}
    /\ files = {}
    /\ texts = <<>>
    /\ buffers = {}
    /\ \E o \in ConfigOverrides, e \in ConfigEnvs, d \in ConfigDisks :
          proc = [p \in Procs |->
                    IF p = 1
                    THEN [IdleProc EXCEPT
                             !.pc = "load_config", !.ncmds = 1,
                             !.cfg = [overrides |-> o, env |-> e, disk |-> d]]
                    ELSE IdleProc]

ConfigNext == MainLoadConfig(1)

ConfigSpec == ConfigInit /\ [][ConfigNext]_vars

\* The identity resolution alone: launchAgent is entered with one input,
\* one value of --name and one of --prompt-file, and resolves them.
\* c repeated n times
Rep(c, n) == [i \in 1..n |-> c]
\* inputs whose slug is cut: the cut falls just after a "-", inside the
\* text, and after a run of characters that collapse to one "-"
Long_CutAfterDash == Rep("a", SlugCap - 1) \o <<"-", "b">>
Long_Over == Rep("a", SlugCap + 1)
Long_CutAfterRun == Rep("A", SlugCap - 1) \o <<" ", "!", "B">>
In_Messy == <<" ", "A", "-", "-", "_", "b", "9", "!", " ">>
Ticket_A1 == <<"A", "-", "1">>
Name_Ov == <<"O", "v">>
\* references, and strings that miss being one by a single trait
TicketInputs ==
    {<<"H", "E", "Y", "-", "1", "2", "3">>, <<"Z", "-", "0", "9">>}
NearTicketInputs ==
    {<<"a", "-", "1">>, <<"A", "b", "-", "1">>, <<"A", "1">>, <<"-", "1">>,
     <<"A", "-">>, <<"1", "-", "1">>, <<"A", "-", "B">>, <<"A", "-", "-", "1">>,
     <<"A", "-", "1", "-", "2">>, <<"A", "_", "1">>, <<" ", "A", "-", "1">>,
     <<"A", "-", "1", " ">>, <<"A", "-", "1", NL>>, <<"x", "A", "-", "1">>,
     <<"A", "-", "1", "x">>, <<"A", " ", "-", "1">>, <<"-">>}
ResolveInputs ==
    {<<>>, Ticket_A1, In_Fix, In_fixBang, In_bang, In_ab, Str_dispatch,
     Long_CutAfterDash, Long_Over, Long_CutAfterRun, In_Messy,
     <<"p", "r", "o", "m", "p", "t", "-", "f", "i", "l", "e">>}
    \cup TicketInputs \cup NearTicketInputs
ResolveNames == NameOverrides \cup {Name_Ov}
ResolvePromptFiles == {NoPromptFile, "task.md", "missing.md"}

ResolveInit ==
    /\ session = FALSE
    /\ sessionCmds = <<>>
    /\ windows = <<>>
    /\ worktrees = {}
    /\ gitignore = NoFile
    /\ branches = {}
    /\ files = {}
    /\ texts = <<>>
    /\ buffers = {}
    /\ \E i \in ResolveInputs, n \in ResolveNames,
          pf \in ResolvePromptFiles :
          proc = [p \in Procs |->
                    IF p = 1
                    THEN [IdleProc EXCEPT !.pc = "resolve", !.cmd = "run",
                             !.ncmds = 1, !.inputs = <<i>>,
                             !.nameOverride = n, !.promptFileArg = pf,
                             !.idx = 1]
                    ELSE IdleProc]

ResolveNext == LaunchResolve(1)

ResolveSpec == ResolveInit /\ [][ResolveNext]_vars

(***************************************************************************)
(* Properties                                                              *)
(***************************************************************************)
Has(t, ev) == \E k \in DOMAIN t : t[k] = ev
Last(t) == t[Len(t)]
Id_fix == slugify(In_Fix)

\* the events of createWorktree, createWindow and of anything typed
ProvisioningEvents ==
    {"wt:skipped", "wt:exists", "wt:missing", "git:add-b:ok",
     "git:add-b:fail", "git:add:ok", "git:add:fail", "cw:exists", "cw:free",
     "tmux:new-session", "tmux:new-window", "cw:created",
     "build:write-prompt", "send:launch", "tmux:paste-buffer", "send:Enter"}

\* C1: launchAgent aborts on an existing window of the resolved id: the step
\* of the duplicate check then ends the launch with the conflict and leaves
\* session, windows (no window, no keys), worktrees and branches as they
\* were; no provisioning step of a launch comes before its duplicate check
\* has found the id free.
C1_DuplicateAbortsBeforeProvisioning ==
    /\ [][\A p \in Procs :
            (/\ proc[p].pc = "check"
             /\ windowExists(proc[p].id)
             /\ proc'[p] # proc[p])
            => /\ proc'[p].pc = "launch_done"
               /\ proc'[p].outcome = "duplicate"
               /\ proc'[p].trace = <<"resolve", "check:exists">>
               /\ ~proc'[p].wtAdded /\ ~proc'[p].created
               /\ UNCHANGED <<session, sessionCmds, windows, worktrees, gitignore, branches,
                              files, texts>>]_vars
    /\ [](\A p \in Procs :
            proc[p].cmd = "run" =>
              \A k \in DOMAIN proc[p].trace :
                 proc[p].trace[k] \in ProvisioningEvents
                 => k > 2 /\ proc[p].trace[2] = "check:free")

\* C1 witness: the same free-text input is launched a second time while the
\* first agent's window and worktree exist, and is refused
C1_Witness ==
    /\ proc[1].cmd = "run" /\ proc[1].ncmds = 2
    /\ proc[1].inputs = <<In_Fix>>
    /\ proc[1].pc = "launch_done" /\ proc[1].outcome = "duplicate"
    /\ windowExists(Id_fix) /\ worktrees = {Id_fix}

\* the step of the launch sequence an event of the trace belongs to:
\* 1 identity, 2 duplicate check, 3 worktree, 4 window, 5 process start,
\* 6 readiness wait, 7 prompt delivery
Phase(ev) ==
    CASE ev = "resolve" -> 1
      [] ev = "check:free" -> 2
      [] ev \in {"wt:skipped", "wt:exists", "wt:missing", "git:add-b:ok",
                 "git:add-b:fail", "git:add:ok"} -> 3
      [] ev \in {"cw:free", "cw:exists", "tmux:new-session",
                 "tmux:new-window", "cw:created"} -> 4
      [] ev \in {"build:write-prompt", "send:launch"} -> 5
      [] ev \in {"wait:ready", "wait:timeout"} -> 6
      [] ev \in {"write:prompt", "tmux:load-buffer", "tmux:paste-buffer",
                 "tmux:delete-buffer", "tmux:delete-buffer:fail",
                 "send:Enter"} -> 7
      [] OTHER -> 0

PhasesOf(t) == {Phase(t[k]) : k \in DOMAIN t}

\* C2: a launch that reaches DONE has gone through identity, duplicate
\* check, worktree (provisioned, or skipped exactly with --no-worktree),
\* window creation and process start in this order, followed in interactive
\* mode only by the readiness wait and the prompt delivery; headless mode
\* has neither the wait nor the paste.
C2_LaunchStepOrder ==
    \A p \in Procs :
       (proc[p].cmd = "run" /\ proc[p].pc = "launch_done"
        /\ proc[p].outcome = "launched") =>
          LET t == proc[p].trace IN
          /\ \A k \in 1 .. (Len(t) - 1) : Phase(t[k]) <= Phase(t[k + 1])
          /\ PhasesOf(t) = IF proc[p].headless THEN 1 .. 5 ELSE 1 .. 7
          /\ Has(t, "wt:skipped") <=> proc[p].skipWorktree
          /\ Has(t, "cw:created") /\ Has(t, "send:launch")
          /\ ~proc[p].headless =>
                /\ Has(t, "tmux:paste-buffer")
                /\ Last(t) = "send:Enter"
          /\ proc[p].headless => Last(t) = "send:launch"

\* C2 witness: an interactive launch in a new worktree has reached DONE
C2_Witness ==
    /\ proc[1].cmd = "run" /\ proc[1].pc = "launch_done"
    /\ proc[1].outcome = "launched"
    /\ ~proc[1].headless /\ ~proc[1].skipWorktree
    /\ Has(proc[1].trace, "git:add-b:ok")
    /\ Has(proc[1].trace, "wait:timeout")

\* C3: cmdRun launches its inputs one after another in argument order; the
\* launches recorded so far are those of the inputs before the current one.
\* When an input resolves to the id of an earlier input of the batch, it is
\* aborted by the duplicate check (never past it), adds no worktree and
\* creates no window: the id has one window and one worktree, those of the
\* earlier launch.
C3_BatchSequentialDuplicate ==
    \A p \in Procs :
       proc[p].cmd = "run" =>
          LET b == proc[p].batch
              s == proc[p] IN
          /\ s.pc # "ended" => Len(b) = s.idx - 1
          /\ s.nameOverride = NoName =>
                \A i \in DOMAIN b : b[i].id = slugify(s.inputs[i])
          /\ \A i, j \in DOMAIN b :
                (i < j /\ b[i].id = b[j].id) =>
                   /\ b[j].outcome = "duplicate"
                   /\ ~b[j].created /\ ~b[j].wtAdded
                   /\ b[i].outcome = "launched" => b[i].created
          /\ (s.pc \notin {"resolve", "ended"}
              /\ \E i \in DOMAIN b : b[i].id = s.id) =>
                   /\ s.pc \in {"check", "launch_done"}
                   /\ s.pc = "launch_done" => s.outcome = "duplicate"
                   /\ Cardinality(TargetIdx(s.id)) = 1
                   /\ ~s.wtAdded /\ ~s.created

\* C3 witness: the batch "Fix" "fix!" has ended; the first input was
\* launched in a new worktree and window, the second was refused
C3_Witness ==
    /\ proc[1].cmd = "run" /\ proc[1].pc = "ended"
    /\ proc[1].inputs = <<In_Fix, In_fixBang>>
    /\ Len(proc[1].batch) = 2
    /\ proc[1].batch[1].outcome = "launched"
    /\ proc[1].batch[1].created /\ proc[1].batch[1].wtAdded
    /\ proc[1].batch[2].outcome = "duplicate"
    /\ Cardinality(TargetIdx(Id_fix)) = 1

\* the fatal outcomes of createWorktree and createWindow
ProvisioningFailures == {"git:add:fail", "tmux:new-window:fail"}

C5_CheckTakesNothing ==
    [][\A p \in Procs :
          (proc[p].pc = "check" /\ proc'[p].pc = "provision") =>
             /\ UNCHANGED <<session, sessionCmds, windows>>
             /\ ~windowExists(proc[p].id)']_vars

PastCheckBeforeWindow(p) ==
    /\ proc[p].cmd = "run"
    /\ proc[p].pc \in {"provision", "wt_add_new", "wt_add_existing",
                       "cw_exists", "cw_has_session", "cw_new_session",
                       "cw_new_window"}
    /\ ~Has(proc[p].trace, "tmux:new-window")

\* C5 witness: two processes launching the same id are both past the
\* duplicate check, and no window of that id has been created yet
C5_Witness ==
    /\ PastCheckBeforeWindow(1) /\ PastCheckBeforeWindow(2)
    /\ proc[1].id = Id_fix /\ proc[2].id = Id_fix
    /\ proc[1].trace[2] = "check:free" /\ proc[2].trace[2] = "check:free"
    /\ TargetIdx(Id_fix) = {}

\* C6: with the invocations run one at a time, no two windows of the
\* dispatch session, the control window included, have the same name.
C6_UniqueWindowNames ==
    \A i, j \in DOMAIN windows :
       i # j => windows[i].name # windows[j].name

\* C7: createWindow(id, cwd) on an existing window named id returns false
\* and changes nothing: the step leaves the session and every window (name,
\* working directory, colour, typed keys) as they were, and the call issues
\* no new-session, no new-window and no send-keys.
C7_CreateWindowExistingNoOp ==
    /\ [][\A p \in Procs :
            (/\ proc[p].pc = "cw_exists"
             /\ windowExists(proc[p].id)
             /\ proc'[p] # proc[p])
            => /\ UNCHANGED <<session, sessionCmds, windows>>
               /\ ~proc'[p].created
               /\ proc'[p].pc = AfterCreateWindow(proc[p])
               /\ Last(proc'[p].trace) = "cw:exists"]_vars
    /\ [](\A p \in Procs :
            Has(proc[p].trace, "cw:exists") =>
               /\ ~Has(proc[p].trace, "tmux:new-session")
               /\ ~Has(proc[p].trace, "tmux:new-window")
               /\ ~Has(proc[p].trace, "cw:created"))

\* C7 witness: createWindow has returned false for a process whose id
\* already had a window, coloured by the process that created it
C7_Witness ==
    \E p \in Procs :
       /\ proc[p].trace # <<>>
       /\ Last(proc[p].trace) = "cw:exists"
       /\ ~proc[p].created
       /\ tmuxTarget(proc[p].id) # 0
       /\ windows[tmuxTarget(proc[p].id)].colour = 1
       /\ windows[tmuxTarget(proc[p].id)].cwd = worktreePath(proc[p].id)

GitAddEvents ==
    {"git:add-b:ok", "git:add-b:fail", "git:add:ok", "git:add:fail"}

\* C8: createWorktree(id, branch) on an existing worktree path returns
\* without a git command and without touching the directory: the step leaves
\* worktrees, branches and the files of the directory as they were, and the
\* launch goes on in that same path, worktreePath(id), as the launch that
\* created it did.
C8_CreateWorktreeExistingNoOp ==
    /\ [][\A p \in Procs :
            (/\ proc[p].pc = "provision" /\ ~proc[p].skipWorktree
             /\ proc[p].id \in worktrees
             /\ proc'[p] # proc[p])
            => /\ UNCHANGED <<worktrees, gitignore, branches, files, texts>>
               /\ proc'[p].pc = "cw_exists"
               /\ proc'[p].wtPath = worktreePath(proc[p].id)
               /\ ~proc'[p].wtAdded
               /\ Last(proc'[p].trace) = "wt:exists"]_vars
    /\ [](\A p \in Procs :
            proc[p].cmd = "run" =>
               /\ Has(proc[p].trace, "wt:exists") =>
                     \A k \in DOMAIN proc[p].trace :
                        proc[p].trace[k] \notin GitAddEvents
               /\ (proc[p].wtPath # <<>> /\ ~proc[p].skipWorktree) =>
                     proc[p].wtPath = worktreePath(proc[p].id))

\* C8 witness: run, stop, run of the same id: the third invocation finds
\* the worktree of the first, with the prompt file written then, and no
\* window
C8_Witness ==
    /\ proc[1].cmd = "run" /\ proc[1].ncmds = 3
    /\ proc[1].id = Id_fix /\ proc[1].pc = "cw_exists"
    /\ Last(proc[1].trace) = "wt:exists"
    /\ <<worktreePath(Id_fix), PromptFileName>> \in files
    /\ TargetIdx(Id_fix) = {}

\* C9: on a missing path createWorktree first tries the new branch off
\* origin/<baseBranch>; the add on the existing local branch is tried only
\* right after that attempt failed; a failure of the first attempt alone is
\* not fatal; the launch goes on when either attempt succeeds and exits 1
\* only when both failed.
C9_WorktreeFallback ==
    \A p \in Procs :
       proc[p].cmd = "run" =>
          LET t == proc[p].trace IN
          \A k \in DOMAIN t :
             /\ (t[k] = "wt:missing" /\ k < Len(t)) =>
                   t[k + 1] \in {"git:add-b:ok", "git:add-b:fail"}
             /\ t[k] \in {"git:add-b:ok", "git:add-b:fail"} =>
                   k > 1 /\ t[k - 1] = "wt:missing"
             /\ t[k] \in {"git:add:ok", "git:add:fail"} =>
                   k > 1 /\ t[k - 1] = "git:add-b:fail"
             /\ (t[k] = "git:add-b:fail" /\ k = Len(t)) =>
                   proc[p].pc = "wt_add_existing"
             /\ t[k] \in {"git:add-b:ok", "git:add:ok"} =>
                   /\ proc[p].wtAdded
                   /\ k = Len(t) => proc[p].pc = "cw_exists"
             /\ t[k] = "git:add:fail" =>
                   k = Len(t) /\ proc[p].pc = "ended" /\ proc[p].exit = 1

\* C9 witness: the first attempt failed (the branch was left by an earlier
\* launch), the fallback attached the worktree to it, and the launch went on
\* to DONE
C9_Witness ==
    /\ proc[1].cmd = "run" /\ proc[1].pc = "launch_done"
    /\ proc[1].outcome = "launched"
    /\ Has(proc[1].trace, "git:add-b:fail")
    /\ Has(proc[1].trace, "git:add:ok")
    /\ proc[1].id \in worktrees

\* the git commands removeWorktree can run
GitRemoveEvents ==
    {"git:remove:ok", "git:remove:fail", "git:prune:ok", "git:prune:fail"}

\* C10: removeWorktree on a missing path returns true, runs no git command
\* and changes nothing, so a second call in a row succeeds as well; on an
\* existing path it runs the forced removal, and once that succeeded the
\* result is true whether the prune that follows succeeds or fails.
C10_RemoveWorktreeIdempotent ==
    /\ [][\A p \in Procs :
            /\ (proc[p].pc = "rm_exists" /\ proc'[p].pc # "rm_exists") =>
                  IF proc[p].id \in worktrees
                  THEN proc'[p].pc = "rm_remove"
                  ELSE /\ proc'[p].rmResult
                       /\ proc'[p].pc \notin {"rm_remove", "rm_prune"}
                       /\ proc'[p].trace = Append(proc[p].trace, "wt:missing")
                       /\ UNCHANGED <<session, sessionCmds, windows, worktrees, gitignore, branches,
                                      files, texts, buffers>>
            /\ (proc[p].pc = "rm_remove" /\ proc'[p].pc # "rm_remove") =>
                  \/ /\ proc'[p].pc = "rm_prune"
                     /\ worktrees' = worktrees \ {proc[p].id}
                  \/ /\ proc'[p].pc # "rm_prune"
                     /\ ~proc'[p].rmResult
                     /\ UNCHANGED <<worktrees, gitignore>>
            /\ (proc[p].pc = "rm_prune" /\ proc'[p].pc # "rm_prune") =>
                  /\ proc'[p].rmResult
                  /\ UNCHANGED <<worktrees, gitignore>>]_vars
    /\ [](\A p \in Procs :
            proc[p].cmd = "cleanup" =>
               LET t == proc[p].trace IN
               /\ Has(t, "wt:missing") =>
                     \A k \in DOMAIN t : t[k] \notin GitRemoveEvents
               /\ (t # <<>> /\ Last(t) \in {"git:prune:ok", "git:prune:fail"})
                     => proc[p].rmResult)

\* C10 witness: the second of two cleanups in a row of an agent launched
\* before found the path gone and returned true
C10_Witness ==
    /\ proc[1].cmd = "cleanup" /\ proc[1].ncmds = 3
    /\ proc[1].pc = "ended" /\ proc[1].exit = 0
    /\ proc[1].id = Id_fix
    /\ proc[1].trace = <<"wt:missing">>
    /\ proc[1].rmResult
    /\ Id_fix \in branches /\ Id_fix \notin worktrees

\* C11: waitForClaude always returns.  Each poll that does not match
\* counts one second, the count never passes the timeout, a match ends the
\* wait with fewer than `timeout` failed polls behind it, the timeout ends
\* it after exactly `timeout` of them, and either way the launch goes on to
\* write and deliver the prompt: the wait never ends the process.
C11_WaitAlwaysReturns ==
    /\ [][\A p \in Procs :
            proc[p].pc = "wait" =>
               \/ /\ proc'[p].pc = "wait"
                  /\ proc'[p].waited = proc[p].waited + 1
                  /\ proc'[p].waited < ClaudeTimeout
                  /\ ~ReadyPattern(tmuxCapture(proc[p].id))
               \/ /\ proc'[p].pc = "write_prompt"
                  /\ proc'[p].trace = Append(proc[p].trace, "wait:ready")
                  /\ proc'[p].waited = proc[p].waited
                  /\ proc[p].waited < ClaudeTimeout
                  /\ ReadyPattern(tmuxCapture(proc[p].id))
               \/ /\ proc'[p].pc = "write_prompt"
                  /\ proc'[p].trace = Append(proc[p].trace, "wait:timeout")
                  /\ proc'[p].waited = ClaudeTimeout
                  /\ ~ReadyPattern(tmuxCapture(proc[p].id))
               \/ proc'[p] = proc[p]]_vars
    /\ [](\A p \in Procs : proc[p].waited <= ClaudeTimeout)
    /\ (proc[1].pc = "wait") ~> (proc[1].pc = "write_prompt")

\* C11 witness: the wait timed out and the prompt was delivered all the same
C11_Witness ==
    /\ proc[1].cmd = "run" /\ ~proc[1].headless
    /\ proc[1].pc = "launch_done" /\ proc[1].outcome = "launched"
    /\ Has(proc[1].trace, "wait:timeout")
    /\ Has(proc[1].trace, "send:Enter")
    /\ proc[1].waited = ClaudeTimeout

\* C12: the readiness wait ends before its timeout only when the pane
\* shows the prompt indicator or the banner of the started claude; the
\* echoed launch command line alone does not end it.
C12_ReadyOnlyWhenProcessReady ==
    [][\A p \in Procs :
         (/\ proc[p].pc = "wait"
          /\ proc'[p].pc = "write_prompt"
          /\ proc'[p].trace = Append(proc[p].trace, "wait:ready"))
            => tmuxCapture(proc[p].id) = "banner"]_vars

\* the steps of the interactive prompt delivery, in the order of the code
DeliverySteps ==
    <<{"write:prompt"}, {"tmux:load-buffer"}, {"tmux:paste-buffer"},
      {"tmux:delete-buffer", "tmux:delete-buffer:fail"}, {"send:Enter"}>>

\* C13: the interactive delivery writes .dispatch-prompt.txt in the working
\* directory, loads it into the buffer named after the id, pastes the buffer
\* into the agent's window, deletes the buffer and sends one Enter, in this
\* order; the deletion step goes on to the Enter whether it succeeded or
\* not, and an Enter is typed only after the paste.
C13_DeliveryOrder ==
    /\ [][\A p \in Procs :
            /\ (proc[p].pc = "write_prompt" /\ proc'[p].pc = "load_buffer")
                  => <<proc[p].wtPath, PromptFileName>> \in files'
            /\ (proc[p].pc = "load_buffer" /\ proc'[p].pc = "paste")
                  => BufName(proc[p].id) \in buffers'
            /\ (proc[p].pc = "paste" /\ proc'[p].pc = "delete_buffer")
                  => windows' = SendKeys(proc[p].id, "paste")
            /\ (proc[p].pc = "delete_buffer" /\ proc'[p] # proc[p])
                  => /\ proc'[p].pc = "enter"
                     /\ BufName(proc[p].id) \notin buffers'
            /\ (proc[p].pc = "enter" /\ proc'[p].pc = "launch_done")
                  => windows' = SendKeys(proc[p].id, "Enter")]_vars
    /\ [](\A p \in Procs :
            proc[p].cmd = "run" =>
               LET t == proc[p].trace IN
               \A k \in DOMAIN t :
                  \A j \in 1 .. 5 :
                     t[k] \in DeliverySteps[j] =>
                        /\ k > j
                        /\ \A i \in 1 .. (j - 1) :
                              t[k - j + i] \in DeliverySteps[i]
                        /\ t[k - j] \in {"wait:ready", "wait:timeout"}
                        /\ \A m \in DOMAIN t :
                              t[m] \in DeliverySteps[j] => m = k)

\* C13 witness: the buffer was already gone when this launch deleted it (a
\* second launch of the same id had deleted it), and the Enter was sent
C13_Witness ==
    \E p \in Procs :
       /\ proc[p].cmd = "run" /\ proc[p].outcome = "launched"
       /\ Len(proc[p].trace) > 1
       /\ Last(proc[p].trace) = "send:Enter"
       /\ proc[p].trace[Len(proc[p].trace) - 1] = "tmux:delete-buffer:fail"
       /\ \E i \in DOMAIN windows :
             /\ windows[i].name = proc[p].id
             /\ windows[i].keys # <<>>
             /\ Last(windows[i].keys) = "Enter"

\* window i is the same window before and after the step
SameWindow(i) ==
    /\ i \in DOMAIN windows /\ i \in DOMAIN windows'
    /\ Len(windows') = Len(windows)
    /\ windows'[i].name = windows[i].name

\* C14: in the window of a headless agent started by run or by resume, the
\* end of the task command, with exit code 0 or not, is followed by the
\* shell running _notify-done; a notification is counted only by a step of
\* the _notify-done command, which the shell reaches only after the task
\* ended, so there are never more notifications than ended tasks.
C14_NotifyAfterTask ==
    /\ [][\A i \in DOMAIN windows :
            SameWindow(i) =>
               /\ windows'[i].tasksEnded # windows[i].tasksEnded =>
                     /\ windows[i].job > 0
                     /\ HeadlessLine[windows[i].job].run = "task"
                     /\ windows'[i].taskExit \in {0, 1}
                     /\ windows'[i].job > 0
                     /\ HeadlessLine[windows'[i].job].run = "_notify-done"
               /\ windows'[i].notified # windows[i].notified =>
                     /\ windows[i].job > 0
                     /\ HeadlessLine[windows[i].job].run = "_notify-done"
                     /\ windows'[i].notified = windows[i].notified + 1
                     /\ windows'[i].notified <= windows[i].tasksEnded]_vars
    /\ [](\A i \in DOMAIN windows :
            /\ windows[i].notified <= windows[i].tasksEnded
            /\ windows[i].tasksEnded <= windows[i].ran
            /\ windows[i].ran <= HeadlessTyped(windows[i])
            /\ (windows[i].job = 0 /\ ~Has(windows[i].keys, "C-c"))
                  => windows[i].notified = windows[i].tasksEnded)

\* C14 witness: the task of an agent resumed headless ended with exit code
\* 1 and the notification was run
C14_Witness ==
    \E i \in DOMAIN windows :
       /\ Has(windows[i].keys, "resume:headless")
       /\ windows[i].taskExit = 1
       /\ windows[i].tasksEnded = 1
       /\ windows[i].notified = 1

AgentWindowNames ==
    LET names == [i \in DOMAIN windows |-> windows[i].name] IN
    SelectSeq(names, LAMBDA n : n # DISPATCH_SESSION)

\* C16: list changes nothing (session, windows, worktrees, branches, files
\* and buffers are the same after the call), and its entries are exactly
\* the windows of the session not named "dispatch", one entry per window
\* under the window's name.
C16_ListExactNoEffect ==
    /\ [][\A p \in Procs :
            (proc[p].pc = "list" /\ proc'[p].pc = "ended") =>
               UNCHANGED <<session, sessionCmds, windows, worktrees, gitignore, branches, files, texts,
                           buffers>>]_vars
    /\ [](\A p \in Procs :
            (/\ proc[p].cmd = "list" /\ proc[p].pc = "ended"
             /\ Has(proc[p].trace, "list:windows")) =>
               [k \in DOMAIN proc[p].report |-> proc[p].report[k].name]
                  = AgentWindowNames)

\* C17: stop(id) that finds the window types the interrupt key into it,
\* then kills it, with no test in between; when stop returns no window is
\* named id, and every step of stop leaves the worktrees, the branches and
\* the files as they were.
C17_StopKillsKeepsWork ==
    /\ [][\A p \in Procs :
            proc[p].cmd = "stop" =>
               /\ proc'[p] # proc[p] => UNCHANGED <<worktrees, gitignore, branches, files, texts>>
               /\ (proc[p].pc = "stop_ctrlc" /\ proc'[p].pc = "stop_kill") =>
                     windows' = SendKeys(proc[p].id, "C-c")
               /\ (proc[p].pc = "stop_ctrlc" /\ proc'[p] # proc[p]) =>
                     proc'[p].pc \in {"stop_kill", "ended"}
               /\ (proc[p].pc = "stop_kill" /\ proc'[p] # proc[p]) =>
                     /\ proc'[p].pc = "ended"
                     /\ TargetIdx(proc[p].id) # {} =>
                           Len(windows') = Len(windows) - 1]_vars
    /\ [](\A p \in Procs :
            (/\ proc[p].cmd = "stop" /\ proc[p].pc = "ended"
             /\ proc[p].exit = 0
             /\ Has(proc[p].trace, "stop:exists")) =>
               /\ proc[p].trace
                     = <<"stop:exists", "send:C-c", "tmux:kill-window">>
               /\ \A i \in DOMAIN windows : windows[i].name # proc[p].id)

\* C17 witness: stop returned after killing the window of an agent whose
\* worktree and branch are still there
C17_Witness ==
    /\ proc[1].cmd = "stop" /\ proc[1].pc = "ended" /\ proc[1].exit = 0
    /\ proc[1].trace = <<"stop:exists", "send:C-c", "tmux:kill-window">>
    /\ proc[1].id \in worktrees /\ proc[1].id \in branches
    /\ <<worktreePath(proc[1].id), PromptFileName>> \in files
    /\ \A i \in DOMAIN windows : windows[i].name # proc[1].id

\* C18: stop(id) that finds no window named id warns and returns with
\* exit code 0: it types no key, kills no window and leaves the session,
\* the worktrees, the branches, the files and the buffers as they were.
C18_StopMissingIsGraceful ==
    /\ [][\A p \in Procs :
            (/\ proc[p].cmd = "stop" /\ proc[p].pc = "stop_check"
             /\ ~windowExists(proc[p].id)
             /\ proc'[p] # proc[p]) =>
               /\ proc'[p].pc = "ended" /\ proc'[p].exit = 0
               /\ proc'[p].trace = <<"stop:not-running">>
               /\ UNCHANGED <<session, sessionCmds, windows, worktrees, gitignore, branches, files, texts,
                              buffers>>]_vars
    /\ [](\A p \in Procs :
            (proc[p].cmd = "stop" /\ Has(proc[p].trace, "stop:not-running"))
               => /\ proc[p].trace = <<"stop:not-running">>
                  /\ proc[p].pc = "ended" /\ proc[p].exit = 0)

\* C18 witness: the second stop of an agent found its window gone and
\* returned, the agent's worktree still being there
C18_Witness ==
    /\ proc[1].cmd = "stop" /\ proc[1].ncmds = 3
    /\ proc[1].pc = "ended" /\ proc[1].exit = 0
    /\ proc[1].trace = <<"stop:not-running">>
    /\ proc[1].id \in worktrees
    /\ windows = <<>> /\ ~session

\* the launch of process p has resolved its identity
Resolved(p) ==
    /\ proc[p].cmd = "run"
    /\ proc[p].pc \notin {"idle", "resolve"}
    /\ proc[p].idx \in DOMAIN proc[p].inputs

\* C19: a ticket reference launched without --name whose title could not
\* be fetched (the prompt carries the reference in place of a title) gets
\* the lowercased reference as its id, with nothing appended, and a prompt
\* that contains the reference as typed.
C19_TicketWithoutTitle ==
    \A p \in Procs :
       LET input == proc[p].inputs[proc[p].idx] IN
       (/\ Resolved(p)
        /\ TICKET_RE(input)
        /\ proc[p].nameOverride = NoName
        /\ proc[p].prompt = <<"ticket", input, input>>) =>
          proc[p].id = ToLower(input)

\* the ids of the modelled names: lowercased letters and digits, or the
\* name as typed when it has none
NamedId(name) ==
    CASE name = Name_Ov -> <<"o", "v">>
      [] name = Name_bar -> <<"|">>

\* C20: with a non-empty --name the id and the branch are the ones of the
\* name, whatever the input (ticket reference or free text) and whatever
\* the first line of the --prompt-file.
C20_NameOverrideWins ==
    \A p \in Procs :
       (Resolved(p) /\ proc[p].nameOverride # NoName) =>
          /\ proc[p].id = NamedId(proc[p].nameOverride)
          /\ proc[p].branch = proc[p].id

\* C20 witness: a ticket reference launched with --name Ov and a prompt
\* file whose heading would name the agent "b" resolved to the id ov
C20_Witness ==
    /\ Resolved(1)
    /\ proc[1].pc = "check"
    /\ proc[1].inputs = <<Ticket_A1>>
    /\ proc[1].nameOverride = Name_Ov
    /\ proc[1].promptFileArg = "task.md"
    /\ proc[1].prompt = <<"file", "task.md">>
    /\ proc[1].id = <<"o", "v">>

\* C21: whatever the input, the --name and the outcome of the ticket fetch,
\* a launch whose prompt file (if one is given) exists reaches the duplicate
\* check with a non-empty id that is also its branch; a fetch that found no
\* title (no key, network error, no match) gives the reference as the
\* title and the launch goes on the same.
C21_ResolutionTotal ==
    \A p \in Procs :
       LET input == proc[p].inputs[proc[p].idx] IN
       (/\ Resolved(p)
        /\ \/ proc[p].promptFileArg = NoPromptFile
           \/ proc[p].promptFileArg \in DOMAIN PromptFilesOnDisk) =>
          /\ proc[p].pc = "check"
          /\ proc[p].id # <<>>
          /\ proc[p].branch = proc[p].id
          /\ (/\ proc[p].fetch \in FetchOutcomes \ {"found"}
              /\ proc[p].promptFileArg = NoPromptFile) =>
                proc[p].prompt = <<"ticket", input, input>>

\* C21 witness: the fetch of a ticket launched without --name ended in a
\* network error and the launch stands at the duplicate check with an id
C21_Witness ==
    /\ Resolved(1) /\ proc[1].pc = "check"
    /\ proc[1].inputs = <<Ticket_A1>>
    /\ proc[1].nameOverride = NoName
    /\ proc[1].fetch = "network-error"
    /\ proc[1].prompt = <<"ticket", Ticket_A1, Ticket_A1>>
    /\ proc[1].id # <<>>

\* a lowercase string of [a-z0-9-] of at most 40 characters that neither
\* starts nor ends with "-" and has no "--"
WellFormedSlug(s) ==
    /\ \A i \in DOMAIN s : IsSlugChar(s[i]) \/ s[i] = "-"
    /\ s # <<>> => s[1] # "-" /\ s[Len(s)] # "-"
    /\ \A i \in 1..(Len(s) - 1) : ~(s[i] = "-" /\ s[i + 1] = "-")
    /\ Len(s) <= SlugCap

\* C22: slugify of every string handed to it (the input of a launch, the
\* title of its ticket, its --name) is lowercase, made of [a-z0-9-] only,
\* has no leading, trailing or doubled "-" and at most 40 characters, also
\* when the cut at 40 falls just after a "-".
C22_SlugWellFormed ==
    \A p \in Procs :
       Resolved(p) =>
          /\ WellFormedSlug(slugify(proc[p].inputs[proc[p].idx]))
          /\ WellFormedSlug(slugify(proc[p].nameOverride))
          /\ \A t \in Titles(proc[p].inputs[proc[p].idx]) :
                WellFormedSlug(slugify(t))

\* C22 witness: the launched text has a "-" as its 40th character once
\* collapsed, and the id of the launch is its slug, one character shorter
C22_Witness ==
    /\ Resolved(1)
    /\ proc[1].inputs = <<Long_CutAfterDash>>
    /\ CollapseNonAlnum(ToLower(Long_CutAfterDash))[SlugCap] = "-"
    /\ proc[1].id = slugify(Long_CutAfterDash)
    /\ Len(proc[1].id) = SlugCap - 1

\* C23: when createWindow has created a window, the colour it gives it is
\* palette[(count - 1) mod 8] with count the number of windows of the
\* session at that moment, the new window included, and no other window
\* changes colour; nothing but that count enters, so a window created after
\* another was destroyed can get the colour of a window still alive.
C23_ColourFromCount ==
    [][\A p \in Procs :
          (/\ proc[p].pc = "cw_colour"
           /\ proc'[p].pc # "cw_colour"
           /\ proc'[p].created) =>
             /\ Len(windows') = Len(windows)
             /\ \A i \in DOMAIN windows :
                   windows'[i].colour =
                      IF windows[i].name = proc[p].id
                      THEN (Len(windows) - 1) % PaletteSize
                      ELSE windows[i].colour]_vars

\* C23 witness: createWindow has just coloured a window, and another
\* living agent window holds the same colour
C23_Witness ==
    /\ proc[1].trace # <<>> /\ Last(proc[1].trace) = "cw:created"
    /\ \E i, j \in DOMAIN windows :
          /\ i # j
          /\ windows[i].name = proc[1].id
          /\ windows[i].colour = (Len(windows) - 1) % PaletteSize
          /\ windows[j].colour = windows[i].colour

\* how many times the banner of the control window has been typed into w
RECURSIVE Banners(_)
Banners(keys) ==
    IF keys = <<>> THEN 0
    ELSE (IF Head(keys) = "banner" THEN 1 ELSE 0) + Banners(Tail(keys))

\* C24: the session appears only in the new-session step of a createWindow
\* that found no session, and that step issues each option once and types
\* the banner once into the control window; while the session lives no
\* step issues an option or types a banner again, so the options issued on
\* a living session are always the four of its creation, once each.
C24_SessionConfiguredOnce ==
    /\ [][/\ (~session /\ session') =>
               /\ \E p \in Procs : /\ proc[p].pc = "cw_new_session"
                                   /\ proc'[p].pc = "cw_new_window"
               /\ sessionCmds' = SessionOptions
               /\ Len(windows') = 1
               /\ windows'[1].name = DISPATCH_SESSION
               /\ Banners(windows'[1].keys) = 1
          /\ (session /\ session') =>
               /\ sessionCmds' = sessionCmds
               /\ \A i \in DOMAIN windows' :
                     Banners(windows'[i].keys) > 0 =>
                        \E j \in DOMAIN windows :
                           /\ windows[j].name = windows'[i].name
                           /\ Banners(windows[j].keys) =
                                 Banners(windows'[i].keys)]_vars
    /\ [](sessionCmds = IF session THEN SessionOptions ELSE <<>>)

\* C24 witness: an agent window has been created by an invocation that
\* found the session living, created and configured by an earlier one
C24_Witness ==
    /\ session
    /\ sessionCmds = SessionOptions
    /\ Len(windows) >= 2
    /\ Banners(windows[1].keys) = 1
    /\ proc[1].trace # <<>> /\ Last(proc[1].trace) = "cw:created"
    /\ ~Has(proc[1].trace, "tmux:new-session")

\* the names a read can be asked about
ReadIds == AgentIds \cup {DISPATCH_SESSION}

EntryLines(file) ==
    IF ~file.exists THEN {}
    ELSE {k \in DOMAIN SplitLines(file.text) :
             SplitLines(file.text)[k] = IgnoreEntry}

\* C27: a createWorktree that has to make the worktree leaves .gitignore as
\* it is when a line equals "<worktreeDir>/", and otherwise adds that one
\* line, keeping every line there was in place; no other step writes the
\* file.  So from a file without the entry the entry is there exactly once
\* after any number of creations.
C27_GitignoreIdempotent ==
    /\ [][/\ gitignore' # gitignore =>
               /\ \E p \in Procs : /\ proc[p].pc = "provision"
                                   /\ proc'[p].pc = "wt_add_new"
               /\ EntryLines(gitignore) = {}
               /\ gitignore.exists =>
                     LET old == SplitLines(gitignore.text)
                         new == SplitLines(gitignore'.text) IN
                     /\ Len(new) >= Len(old)
                     /\ SubSeq(new, 1, Len(old)) = old
          /\ \A p \in Procs :
                (proc[p].pc = "provision" /\ proc'[p].pc = "wt_add_new") =>
                   /\ gitignore'.exists
                   /\ Cardinality(EntryLines(gitignore')) =
                         IF EntryLines(gitignore) = {} THEN 1
                         ELSE Cardinality(EntryLines(gitignore))]_vars
    /\ [](Cardinality(EntryLines(gitignore)) <= 1)
    /\ [](worktrees # {} => Cardinality(EntryLines(gitignore)) = 1)

\* C27 witness: two worktrees were made in a repository whose .gitignore
\* had one line, not the entry: the line is still first and the entry
\* follows it once
C27_Witness ==
    /\ Cardinality(worktrees) = 2
    /\ gitignore = FileOf(<<"node_modules", NL, ".worktrees/", NL>>)
    /\ SplitLines(gitignore.text)[1] = <<"node_modules">>
    /\ Cardinality(EntryLines(gitignore)) = 1

IsPrefix(a, b) == Len(a) <= Len(b) /\ SubSeq(b, 1, Len(a)) = a

LogFiles == {f \in files : f[2] = LogFileName}

\* C28: a step that is not the removal of the worktree holding it leaves
\* every .dispatch.log in place with its earlier text as a prefix of the
\* new one; this covers the headless run or resume typed into a window of
\* a directory that already holds a log.
C28_LogAppendOnly ==
    [][\A f \in LogFiles :
          \/ /\ f \in files'
             /\ IsPrefix(texts[f], texts'[f])
          \/ \E p \in Procs :
                /\ proc[p].pc = "rm_remove"
                /\ proc'[p].pc = "rm_prune"
                /\ f[1] = worktreePath(proc[p].id)
                /\ proc[p].id \notin worktrees']_vars

\* C28 witness: a second headless task has ended in a directory whose log
\* held the output of an earlier one, and the log holds both
C28_Witness ==
    \E i \in DOMAIN windows :
       /\ windows[i].tasksEnded = 1
       /\ windows[i].ran = 1
       /\ <<windows[i].cwd, LogFileName>> \in files
       /\ texts[<<windows[i].cwd, LogFileName>>] = ClaudeOutput \o ClaudeOutput

\* the prompt file of the launch of process p
PromptFileOf(p) == <<proc[p].wtPath, PromptFileName>>

\* C29: once buildClaudeCmd has run in headless mode, and from the write of
\* the interactive delivery to its end, .dispatch-prompt.txt of the working
\* directory holds the prompt string, piece for piece: for a text launch
\* the input as typed, newlines and quotes included.
C29_PromptFileRoundTrip ==
    \A p \in Procs :
       (/\ proc[p].cmd = "run"
        /\ \/ proc[p].headless /\ proc[p].pc = "start"
           \/ ~proc[p].headless /\
                 proc[p].pc \in {"load_buffer", "paste", "delete_buffer", "enter"}
           \/ proc[p].pc = "launch_done" /\ proc[p].outcome = "launched") =>
          /\ PromptFileOf(p) \in files
          /\ texts[PromptFileOf(p)] = PromptText(proc[p].prompt)
          /\ proc[p].prompt[1] = "text" =>
                texts[PromptFileOf(p)] = proc[p].inputs[proc[p].idx]

\* C29 witness: an interactive launch has delivered a prompt with a double
\* quote, a newline and a single quote, and the file holds it
C29_Witness ==
    /\ proc[1].cmd = "run" /\ ~proc[1].headless
    /\ proc[1].pc = "launch_done" /\ proc[1].outcome = "launched"
    /\ proc[1].inputs[proc[1].idx] = In_Quoted
    /\ \E k \in DOMAIN In_Quoted : In_Quoted[k] = NL
    /\ \E k \in DOMAIN In_Quoted : In_Quoted[k] = "\""
    /\ texts[PromptFileOf(1)] = In_Quoted

\* the pieces only a headless command has
HeadlessPieces ==
    {" -p", " --allowedTools \"", " --max-turns ", " --max-budget-usd ",
     " --output-format json", " < '"}

Pieces(cmd) == {cmd[k] : k \in DOMAIN cmd}

\* C30: the command buildClaudeCmd has returned.  Interactive: "claude",
\* then " --model M" iff a model is set, then the extra arguments iff given,
\* none of -p, --allowedTools, --max-turns, --max-budget-usd,
\* --output-format or a redirection added, and no file written.  Headless:
\* it starts with "claude -p", has --allowedTools and --output-format json,
\* has --max-turns and --max-budget-usd exactly when the value is set, and
\* ends with the redirection from the prompt file, which is written.
C30_ClaudeCmdShape ==
    \A p \in Procs :
       LET s == proc[p]
           cmd == s.claudeCmd IN
       (s.cmd = "run" /\ s.pc = "start") =>
          IF ~s.headless
          THEN /\ cmd = <<"claude">>
                        \o (IF s.model # "" THEN <<" --model ", s.model>>
                            ELSE <<>>)
                        \o (IF s.extraArgs # "" THEN <<" ", s.extraArgs>>
                            ELSE <<>>)
               /\ Pieces(cmd) \cap HeadlessPieces = {}
               /\ files = {}
          ELSE /\ SubSeq(cmd, 1, 2) = <<"claude", " -p">>
               /\ " --allowedTools \"" \in Pieces(cmd)
               /\ " --output-format json" \in Pieces(cmd)
               /\ (" --model " \in Pieces(cmd)) = (s.model # "")
               /\ (" --max-turns " \in Pieces(cmd)) = (s.maxTurns # "")
               /\ (" --max-budget-usd " \in Pieces(cmd)) = (s.maxBudget # "")
               /\ s.maxTurns # "" =>
                     \E k \in DOMAIN cmd :
                        cmd[k] = " --max-turns " /\ cmd[k + 1] = s.maxTurns
               /\ s.maxBudget # "" =>
                     \E k \in DOMAIN cmd :
                        cmd[k] = " --max-budget-usd " /\ cmd[k + 1] = s.maxBudget
               /\ LET tail == <<" < '">> \o PromptPath(s.wtPath) \o <<"'">> IN
                  /\ Len(cmd) > Len(tail)
                  /\ SubSeq(cmd, Len(cmd) - Len(tail) + 1, Len(cmd)) = tail
               /\ <<s.wtPath, PromptFileName>> \in files

\* C30 witness: an interactive command built with a model, both limits and
\* extra arguments set
C30_Witness ==
    /\ proc[1].cmd = "run" /\ proc[1].pc = "start" /\ ~proc[1].headless
    /\ proc[1].model = "opus"
    /\ proc[1].maxTurns = "10" /\ proc[1].maxBudget = "5"
    /\ proc[1].extraArgs = "--verbose"
    /\ proc[1].claudeCmd = <<"claude", " --model ", "opus", " ", "--verbose">>

\* the failures of creation and typing that are fatal: process.exit(1) in
\* createWorktree and createWindow, or an exception of execSync or
\* writeFileSync reaching main().catch
FatalEvents ==
    {"git:add:fail", "tmux:new-session:fail", "tmux:new-window:fail",
     "tmux:send-keys:fail", "build:write-prompt:fail", "write:prompt:fail",
     "tmux:load-buffer:fail", "tmux:paste-buffer:fail"}

\* the invocation ended on a usage error or an unknown command
UsageError(s) == Last(s.trace) \in {"usage", "unknown-command"}

\* resume found no worktree, logs found neither log nor window
MissingForResumeOrLogs(s) ==
    \/ s.cmd = "resume" /\ Last(s.trace) = "wt:missing"
    \/ s.cmd = "logs" /\ Last(s.trace) = "logs:not-found"

\* stop found no window, cleanup found neither window nor worktree
MissingForStopOrCleanup(s) ==
    \/ s.cmd = "stop" /\ Has(s.trace, "stop:not-running")
    \/ s.cmd = "cleanup" /\ Head(s.trace) = "wt:missing"

Ended(p) == proc[p].pc = "ended" /\ proc[p].trace # <<>>

RECURSIVE ScanTicket(_, _)
ScanTicket(s, st) ==
    IF s = <<>> THEN st
    ELSE LET c == Head(s)
             nxt == IF st \in {"start", "letters"} /\ IsUpper(c) THEN "letters"
                    ELSE IF st = "letters" /\ c = "-" THEN "hyphen"
                    ELSE IF st \in {"hyphen", "digits"} /\ IsDigit(c)
                    THEN "digits"
                    ELSE "no"
         IN  ScanTicket(Tail(s), nxt)

\* C31: a launch treats its input as a ticket reference (it fetches the
\* ticket, and its id begins with the lowercased reference) exactly when
\* the whole input is one or more letters A-Z, one hyphen, one or more
\* digits; any other input is free text and nothing is fetched.
C31_TicketExactlyUpperDashDigits ==
    \A p \in Procs :
       Resolved(p) =>
          LET input == proc[p].inputs[proc[p].idx]
              shaped == ScanTicket(input, "start") = "digits" IN
          /\ (proc[p].fetch \in FetchOutcomes) <=> shaped
          /\ (proc[p].fetch = "none") <=> ~shaped
          /\ (proc[p].promptFileArg = NoPromptFile) =>
                proc[p].prompt[1] = (IF shaped THEN "ticket" ELSE "text")
          /\ (shaped /\ proc[p].nameOverride = NoName) =>
                SubSeq(proc[p].id, 1, Len(input) + 1)
                   = ToLower(input) \o <<"-">>

\* C31 witness: a reference followed by a newline was launched as free
\* text, nothing was fetched and the prompt is the input itself
C31_Witness ==
    /\ Resolved(1)
    /\ proc[1].inputs = << <<"A", "-", "1", NL>> >>
    /\ proc[1].fetch = "none"
    /\ proc[1].promptFileArg = NoPromptFile
    /\ proc[1].prompt = <<"text", <<"A", "-", "1", NL>> >>

\* the file loadConfig reads in the call of process p, parsed
FileOfCall(p) ==
    LET c == proc[p].cfg
        path == IF EnvSet(c.env, "DISPATCH_CONFIG")
                THEN c.env["DISPATCH_CONFIG"] ELSE HomeConfigPath
    IN  IF path \in DOMAIN c.disk /\ c.disk[path].exists
        THEN parseSimpleYaml(c.disk[path].text) ELSE <<>>

\* the key of the file that names configuration key k
YamlKeyOf(k) == CHOOSE y \in DOMAIN KEY_MAP : KEY_MAP[y] = k

\* The value of key k by precedence, vars giving the environment variable
\* of each key that has one: the override, else the variable, else the
\* file, else the default
ByPrecedence(p, k, vars_) ==
    LET c == proc[p].cfg
        file == FileOfCall(p) IN
    IF k \in DOMAIN c.overrides /\ c.overrides[k] # <<>>
    THEN c.overrides[k]
    ELSE IF k \in DOMAIN vars_ /\ EnvSet(c.env, vars_[k])
    THEN Coerce(k, c.env[vars_[k]])
    ELSE IF YamlKeyOf(k) \in DOMAIN file
    THEN Coerce(k, file[YamlKeyOf(k)])
    ELSE DEFAULTS[k]

\* the variables loadConfig reads
EnvVarsRead ==
    ("baseBranch" :> "DISPATCH_BASE_BRANCH") @@ ("model" :> "DISPATCH_MODEL")
    @@ ("maxTurns" :> "DISPATCH_MAX_TURNS")
    @@ ("maxBudget" :> "DISPATCH_MAX_BUDGET")
    @@ ("allowedTools" :> "DISPATCH_ALLOWED_TOOLS")
    @@ ("claudeTimeout" :> "DISPATCH_CLAUDE_TIMEOUT")

\* a variable for every key
EnvVarsEveryKey == EnvVarsRead @@ ("worktreeDir" :> "DISPATCH_WORKTREE_DIR")

\* C32 as stated: every key, worktreeDir included, is resolved override >
\* environment variable > file > default.
C32_EveryKeyFourLevels ==
    \A p \in Procs :
       proc[p].pc = "main" =>
          \A k \in ConfigKeys :
             proc[p].config[k] = ByPrecedence(p, k, EnvVarsEveryKey)

\* C32: loadConfig gives every key the override if it is defined and not
\* empty, else the key's environment variable if it is set and not empty,
\* else the value of the file if the file has the key (an empty value
\* included), else the default; worktreeDir has no environment variable
\* and goes from the override to the file; the timeout read from a
\* variable or from the file is converted with Number; a missing or
\* unreadable file leaves the defaults.
C32_ConfigPrecedence ==
    \A p \in Procs :
       proc[p].pc = "main" =>
          /\ \A k \in ConfigKeys :
                proc[p].config[k] = ByPrecedence(p, k, EnvVarsRead)
          /\ (proc[p].cfg.overrides = <<>> /\ proc[p].cfg.env = <<>>
              /\ FileOfCall(p) = <<>>) =>
                /\ proc[p].config = DEFAULTS
                /\ proc[p].config["baseBranch"] = <<"dev">>
                /\ proc[p].config["model"] = <<>>
                /\ proc[p].config["maxTurns"] = <<>>
                /\ proc[p].config["maxBudget"] = <<>>
                /\ proc[p].config["worktreeDir"] = <<".worktrees">>
                /\ proc[p].config["claudeTimeout"] = Num(30)

\* C32 witness: a call with an override for the model only, every variable
\* set and the file giving every key: the model is the override's, the base
\* branch the variable's, the worktree directory the file's
C32_Witness ==
    /\ proc[1].pc = "main"
    /\ DOMAIN proc[1].cfg.overrides = {"model", "baseBranch"}
    /\ EnvSet(proc[1].cfg.env, "DISPATCH_WORKTREE_DIR")
    /\ EnvSet(proc[1].cfg.env, "DISPATCH_MAX_TURNS")
    /\ <<"worktree_dir">> \in DOMAIN FileOfCall(1)
    /\ proc[1].config["model"] = <<"opus">>
    /\ proc[1].config["maxTurns"] = <<"7">>
    /\ proc[1].config["worktreeDir"] = <<"wt">>

\* C33: a command that calls tmuxAttach ends with exit code 0 whatever the
\* terminal, the platform and the running applications.  With a terminal
\* it runs tmux attach on the target and probes nothing.  Without one, on
\* macOS, it probes iTerm2, Warp, Terminal in that order, stops at the first
\* found running and runs its script; when none is found, and on any other
\* platform, it prints the manual instruction.
C33_AttachNeverFails ==
    \A p \in Procs :
       proc[p].attach # <<>> =>
          LET a == proc[p].attach
              n == Len(a.probes) IN
          /\ proc[p].pc = "ended" /\ proc[p].exit = 0
          /\ a.how \in {"attach", "osascript", "warn"}
          /\ a.target = (IF proc[p].cmd = "attach" /\ proc[p].id # NoArg
                         THEN <<DISPATCH_SESSION, proc[p].id>>
                         ELSE <<DISPATCH_SESSION>>)
          /\ a.tty => a.how = "attach" /\ n = 0
          /\ (~a.tty /\ a.platform # "darwin") => a.how = "warn" /\ n = 0
          /\ (~a.tty /\ a.platform = "darwin") =>
                /\ n \in 1 .. Len(Terminals)
                /\ \A k \in 1 .. n : a.probes[k].name = Terminals[k]
                /\ \A k \in 1 .. (n - 1) : ~a.probes[k].found
                /\ IF a.probes[n].found
                   THEN a.how = "osascript" /\ a.script = Terminals[n]
                   ELSE a.how = "warn" /\ n = Len(Terminals)

\* C33 witness: `dispatch attach fix` without a terminal on macOS found
\* iTerm2 not running and Warp running, ran the script of Warp and ended
\* with exit code 0; Terminal was not probed
C33_Witness ==
    /\ proc[1].cmd = "attach" /\ proc[1].pc = "ended" /\ proc[1].exit = 0
    /\ proc[1].id = slugify(In_Fix)
    /\ proc[1].attach # <<>>
    /\ proc[1].attach.how = "osascript"
    /\ proc[1].attach.script = "Warp"
    /\ proc[1].attach.probes = <<[name |-> "iTerm2", found |-> FALSE],
                                 [name |-> "Warp", found |-> TRUE]>>

\* the windows of agent id in its worktree
WorktreeWindows(ws, id) ==
    {i \in DOMAIN ws : ws[i].name = id /\ ws[i].cwd = worktreePath(id)}

\* the steps of a resume and what it leaves
ResumeSteps(p) ==
    LET s == proc[p]
        t == proc'[p] IN
    (s.cmd = "resume" /\ t.cmd = "resume" /\ s # t) =>
       \* it never creates or removes a worktree or a branch
       /\ worktrees' = worktrees /\ branches' = branches
       \* no worktree: exit 1, nothing touched
       /\ (s.pc = "resume_wt" /\ s.id \notin worktrees) =>
             /\ t.pc = "ended" /\ t.exit = 1
             /\ windows' = windows /\ session' = session
       \* a window named id exists: nothing created, nothing typed
       /\ (s.pc = "resume_check" /\ windowExists(s.id)) =>
             /\ t.pc = "ended" /\ t.exit = 0
             /\ windows' = windows /\ files' = files /\ texts' = texts
       \* the only window added besides the control window of a new
       \* session is one window named id in the worktree, added once
       /\ Len(windows') \in {Len(windows), Len(windows) + 1}
       /\ (Len(windows') > Len(windows) /\ s.pc # "cw_new_session") =>
             /\ windows'[Len(windows')].name = s.id
             /\ windows'[Len(windows')].cwd = worktreePath(s.id)
             /\ ~Has(s.trace, "tmux:new-window")
             /\ s.id \in worktrees

CleanupSteps(p) ==
    LET s == proc[p]
        t == proc'[p] IN
    (s.cmd = "cleanup" /\ t.cmd = "cleanup" /\ s # t) =>
       \* the worktree of the name at hand is the only one removed, and it
       \* is removed when no window has that name
       /\ worktrees' # worktrees =>
             /\ worktrees' = worktrees \ {s.id}
             /\ s.pc = "rm_remove"
             /\ ~windowExists(s.id)
             /\ ~(session' /\ \E i \in DOMAIN windows' :
                                 windows'[i].name = s.id)
       \* a window is closed only before the removal is tried
       /\ windows' # windows =>
             /\ s.pc \in {"stop_ctrlc", "stop_kill"}
             /\ \A i \in DOMAIN windows' : windows'[i].name # s.id
                   => \E j \in DOMAIN windows : windows[j].name = windows'[i].name
       /\ (s.pc \in {"stop_check", "stop_ctrlc", "stop_kill"}) =>
             (s.batch = << >> \/ s.batch[Len(s.batch)].id # s.id)
       \* the branch goes only with --delete-branch
       /\ branches' # branches =>
             /\ s.deleteBranch
             /\ branches' = branches \ {s.id}
             /\ s.id \notin worktrees

LaunchSends == {"send:launch", "tmux:paste-buffer", "send:Enter"}

\* C36: a launch starts its process and pastes its prompt only in a window
\* this same launch created: a launch whose createWindow returned false
\* (a window of that name appeared after the duplicate check) sends no
\* command line, no prompt and no Enter to that window.
C36_SendsOnlyToOwnWindow ==
    \A p \in Procs :
       (proc[p].cmd = "run" /\ Has(proc[p].trace, "cw:exists")) =>
          \A k \in DOMAIN proc[p].trace : proc[p].trace[k] \notin LaunchSends

\* a window made by createWindow: the control window is the one whose
\* first typed text is the banner of ensureSession
IsAgentWindow(w) == w.keys = <<>> \/ Head(w.keys) # "banner"

\* C37: every window a launch or a resume created and that still exists is
\* reported by list: no agent window is hidden by the filter on the name
\* of the control window.
C37_EveryAgentWindowListed ==
    \A p \in Procs :
       (/\ proc[p].cmd = "list" /\ proc[p].pc = "ended"
        /\ Has(proc[p].trace, "list:windows")) =>
          \A i \in DOMAIN windows :
             IsAgentWindow(windows[i]) =>
                \E k \in DOMAIN proc[p].report :
                   proc[p].report[k].name = windows[i].name

\* the options cmdRun has a case for
RecognisedOptions ==
    {Opt_headless, Opt_H, Opt_model, Opt_m, Opt_maxTurns, Opt_maxBudget,
     Opt_base, Opt_b, Opt_promptFile, Opt_f, Opt_noWorktree, Opt_noAttach,
     Opt_name, Opt_n}

Unrecognised(arg) == StartsWithDashes(arg) /\ arg \notin RecognisedOptions

\* the words, each after a blank, as one string
RECURSIVE JoinWords(_)
JoinWords(ws) ==
    IF ws = <<>> THEN "" ELSE " " \o Text(Head(ws)) \o JoinWords(Tail(ws))

\* C38: every unrecognised option starting with "--" passed to run is on
\* the claude command line typed into the agent's window, in interactive
\* mode as in headless mode.
C38_ExtraOptionsForwarded ==
    \A p \in Procs :
       LET s == proc[p]
           extra == SelectSeq(s.args, Unrecognised) IN
       (s.cmd = "run" /\ Has(s.trace, "send:launch") /\ extra # <<>>) =>
          \E k \in DOMAIN s.typed : s.typed[k] = JoinWords(extra)

\* in headless mode the options are on the typed line
HeadlessForwardsExtra ==
    \A p \in Procs :
       LET s == proc[p]
           extra == SelectSeq(s.args, Unrecognised) IN
       (s.cmd = "run" /\ Has(s.trace, "send:launch") /\ extra # <<>>
        /\ s.headless) =>
          \E k \in DOMAIN s.typed : s.typed[k] = JoinWords(extra)

\* C39: resume with --no-attach never attaches the invoking terminal and
\* never opens a terminal tab, in every branch (agent already running,
\* interactive resume, headless resume): tmuxAttach is not called, or it
\* has only printed its hint.
C39_ResumeNoAttachNeverAttaches ==
    \A p \in Procs :
       (proc[p].cmd = "resume" /\ proc[p].noAttach) =>
          \/ proc[p].attach = <<>>
          \/ proc[p].attach.how = "warn"

====
